---- MODULE Spec2Model ----
(***************************************************************************)
(* The embedded serverless function subsystem of the Supabase MCP server:  *)
(* NodeJSServerlessHandler (src/src/nodejs-serverless-handler.ts), its     *)
(* function registry, its code transformer, the VM run of a wrapped        *)
(* function and the response normaliser.                                   *)
(*                                                                         *)
(* Strings.  TLA+ strings are atomic, so every text the code inspects      *)
(* character by character (a function name, a submitted source) is kept    *)
(* in the state as the string the caller sent, and Chars(s) gives its      *)
(* characters; texts the code builds (error messages, a last line) are     *)
(* sequences of characters.                                                *)
(*                                                                         *)
(* JavaScript values are records tagged by t: "undefined", "nan", "num",   *)
(* "str" (v: characters), "obj" (v: a sequence of <<key, value>> pairs in  *)
(* insertion order), "Error" (realm, message), and the two values a        *)
(* hostile function can throw, "hostile" and "nullproto".                  *)
(***************************************************************************)
EXTENDS Integers, Sequences, FiniteSets, TLC

\* ------------------------------------------------------------------------
\* Bounds of the model
\* ------------------------------------------------------------------------
MaxCalls == 2
MaxClock == 1
MaxTimers == 1

VARIABLES functions, dirs, now, calls, ret, host, build, timers, processEnv,
          denoFunctions, denoFiles

vars == <<functions, dirs, now, calls, ret, host, build, timers, processEnv,
          denoFunctions, denoFiles>>

\* the variables of the server process outside the handler
hostVars == <<host, build, timers, processEnv>>

\* the variables of the Deno handler (ServerlessFunctionHandler)
denoVars == <<denoFunctions, denoFiles>>

\* ------------------------------------------------------------------------
\* Characters of the string literals
\* ------------------------------------------------------------------------
\* BEGIN Chars
Chars(s) ==
  CASE s = "f" ->
         <<"f">>
    [] s = "valid-name-1" ->
         <<"v","a","l","i","d","-","n","a","m","e","-","1">>
    [] s = "aaaaaaaaaaaaaaaaaaaaaaaaaaaaaaaaaaaaaaaaaaaaaaaaaa" ->
         [i \in 1..50 |-> "a"]
    [] s = "Has_Upper" ->
         <<"H","a","s","_","U","p","p","e","r">>
    [] s = "aaaaaaaaaaaaaaaaaaaaaaaaaaaaaaaaaaaaaaaaaaaaaaaaaaa" ->
         [i \in 1..51 |-> "a"]
    [] s = "function add(req){ return req.a + req.b }\nadd" ->
         <<"f","u","n","c","t","i","o","n"," ","a","d","d","(","r","e","q",")","{"," ","r","e","t","u","r","n"," ","r","e","q",".","a"," ","+"," ","r","e","q",".","b"," ","}","\n","a","d","d">>
    [] s = "function add(req){ return req.body.a + req.body.b }\nadd" ->
         <<"f","u","n","c","t","i","o","n"," ","a","d","d","(","r","e","q",")","{"," ","r","e","t","u","r","n"," ","r","e","q",".","b","o","d","y",".","a"," ","+"," ","r","e","q",".","b","o","d","y",".","b"," ","}","\n","a","d","d">>
    [] s = "module.exports.default = async function(req){ return {greeting: 'hi ' + req.body.name} }" ->
         <<"m","o","d","u","l","e",".","e","x","p","o","r","t","s",".","d","e","f","a","u","l","t"," ","="," ","a","s","y","n","c"," ","f","u","n","c","t","i","o","n","(","r","e","q",")","{"," ","r","e","t","u","r","n"," ","{","g","r","e","e","t","i","n","g",":"," ","'","h","i"," ","'"," ","+"," ","r","e","q",".","b","o","d","y",".","n","a","m","e","}"," ","}">>
    [] s = "exports.default = async function(req){\n  return {greeting: 'hi ' + req.body.name}\n}" ->
         <<"e","x","p","o","r","t","s",".","d","e","f","a","u","l","t"," ","="," ","a","s","y","n","c"," ","f","u","n","c","t","i","o","n","(","r","e","q",")","{","\n"," "," ","r","e","t","u","r","n"," ","{","g","r","e","e","t","i","n","g",":"," ","'","h","i"," ","'"," ","+"," ","r","e","q",".","b","o","d","y",".","n","a","m","e","}","\n","}">>
    [] s = "module.exports.default = async function(req){\n  return {greeting: 'hi ' + req.body.name}\n};" ->
         <<"m","o","d","u","l","e",".","e","x","p","o","r","t","s",".","d","e","f","a","u","l","t"," ","="," ","a","s","y","n","c"," ","f","u","n","c","t","i","o","n","(","r","e","q",")","{","\n"," "," ","r","e","t","u","r","n"," ","{","g","r","e","e","t","i","n","g",":"," ","'","h","i"," ","'"," ","+"," ","r","e","q",".","b","o","d","y",".","n","a","m","e","}","\n","}",";">>
    [] s = "function h(req){ res.json({via: 'builder'}); return {body: 'explicit', status: 201} }\nh" ->
         <<"f","u","n","c","t","i","o","n"," ","h","(","r","e","q",")","{"," ","r","e","s",".","j","s","o","n","(","{","v","i","a",":"," ","'","b","u","i","l","d","e","r","'","}",")",";"," ","r","e","t","u","r","n"," ","{","b","o","d","y",":"," ","'","e","x","p","l","i","c","i","t","'",","," ","s","t","a","t","u","s",":"," ","2","0","1","}"," ","}","\n","h">>
    [] s = "function h(req){ res.json({via: 'builder'}); return {plain: 1} }\nh" ->
         <<"f","u","n","c","t","i","o","n"," ","h","(","r","e","q",")","{"," ","r","e","s",".","j","s","o","n","(","{","v","i","a",":"," ","'","b","u","i","l","d","e","r","'","}",")",";"," ","r","e","t","u","r","n"," ","{","p","l","a","i","n",":"," ","1","}"," ","}","\n","h">>
    [] s = "function h(req){ return {plain: 1} }\nh" ->
         <<"f","u","n","c","t","i","o","n"," ","h","(","r","e","q",")","{"," ","r","e","t","u","r","n"," ","{","p","l","a","i","n",":"," ","1","}"," ","}","\n","h">>
    [] s = "function h(req){ throw new Error('boom') }\nh" ->
         <<"f","u","n","c","t","i","o","n"," ","h","(","r","e","q",")","{"," ","t","h","r","o","w"," ","n","e","w"," ","E","r","r","o","r","(","'","b","o","o","m","'",")"," ","}","\n","h">>
    [] s = "function h(req){ throw { get message(){ throw Object.create(null) } } }\nh" ->
         <<"f","u","n","c","t","i","o","n"," ","h","(","r","e","q",")","{"," ","t","h","r","o","w"," ","{"," ","g","e","t"," ","m","e","s","s","a","g","e","(",")","{"," ","t","h","r","o","w"," ","O","b","j","e","c","t",".","c","r","e","a","t","e","(","n","u","l","l",")"," ","}"," ","}"," ","}","\n","h">>
    [] s = "function h(req){ while(true){} }\nh" ->
         <<"f","u","n","c","t","i","o","n"," ","h","(","r","e","q",")","{"," ","w","h","i","l","e","(","t","r","u","e",")","{","}"," ","}","\n","h">>
    [] s = "function h(req){ require('fs'); return 1 }\nh" ->
         <<"f","u","n","c","t","i","o","n"," ","h","(","r","e","q",")","{"," ","r","e","q","u","i","r","e","(","'","f","s","'",")",";"," ","r","e","t","u","r","n"," ","1"," ","}","\n","h">>
    [] s = "const h = 1\nh" ->
         <<"c","o","n","s","t"," ","h"," ","="," ","1","\n","h">>
    [] s = "  \n" ->
         <<" "," ","\n">>
    [] s = "Invalid function name. Use only letters, numbers, and hyphens." ->
         <<"I","n","v","a","l","i","d"," ","f","u","n","c","t","i","o","n"," ","n","a","m","e","."," ","U","s","e"," ","o","n","l","y"," ","l","e","t","t","e","r","s",","," ","n","u","m","b","e","r","s",","," ","a","n","d"," ","h","y","p","h","e","n","s",".">>
    [] s = "Function code cannot be empty" ->
         <<"F","u","n","c","t","i","o","n"," ","c","o","d","e"," ","c","a","n","n","o","t"," ","b","e"," ","e","m","p","t","y">>
    [] s = "Function code too large (max 100KB)" ->
         <<"F","u","n","c","t","i","o","n"," ","c","o","d","e"," ","t","o","o"," ","l","a","r","g","e"," ","(","m","a","x"," ","1","0","0","K","B",")">>
    [] s = "Function '" ->
         <<"F","u","n","c","t","i","o","n"," ","'">>
    [] s = "' not found. Deploy it first using deployFunction()." ->
         <<"'"," ","n","o","t"," ","f","o","u","n","d","."," ","D","e","p","l","o","y"," ","i","t"," ","f","i","r","s","t"," ","u","s","i","n","g"," ","d","e","p","l","o","y","F","u","n","c","t","i","o","n","(",")",".">>
    [] s = "Function " ->
         <<"F","u","n","c","t","i","o","n"," ">>
    [] s = " is not defined or not a function" ->
         <<" ","i","s"," ","n","o","t"," ","d","e","f","i","n","e","d"," ","o","r"," ","n","o","t"," ","a"," ","f","u","n","c","t","i","o","n">>
    [] s = "Function execution failed: " ->
         <<"F","u","n","c","t","i","o","n"," ","e","x","e","c","u","t","i","o","n"," ","f","a","i","l","e","d",":"," ">>
    [] s = "Module '" ->
         <<"M","o","d","u","l","e"," ","'">>
    [] s = "' is not allowed in serverless functions" ->
         <<"'"," ","i","s"," ","n","o","t"," ","a","l","l","o","w","e","d"," ","i","n"," ","s","e","r","v","e","r","l","e","s","s"," ","f","u","n","c","t","i","o","n","s">>
    [] s = "Script execution timed out after 30000ms" ->
         <<"S","c","r","i","p","t"," ","e","x","e","c","u","t","i","o","n"," ","t","i","m","e","d"," ","o","u","t"," ","a","f","t","e","r"," ","3","0","0","0","0","m","s">>
    [] s = "Error: " ->
         <<"E","r","r","o","r",":"," ">>
    [] s = "undefined" ->
         <<"u","n","d","e","f","i","n","e","d">>
    [] s = "hi " ->
         <<"h","i"," ">>
    [] s = "Ada" ->
         <<"A","d","a">>
    [] s = "boom" ->
         <<"b","o","o","m">>
    [] s = "builder" ->
         <<"b","u","i","l","d","e","r">>
    [] s = "explicit" ->
         <<"e","x","p","l","i","c","i","t">>
    [] s = "fs" ->
         <<"f","s">>
    [] s = "crypto" ->
         <<"c","r","y","p","t","o">>
    [] s = "add" ->
         <<"a","d","d">>
    [] s = "h" ->
         <<"h">>
    [] s = "POST" ->
         <<"P","O","S","T">>
    [] s = "/functions/v1/" ->
         <<"/","f","u","n","c","t","i","o","n","s","/","v","1","/">>
    [] s = "Cannot read properties of undefined" ->
         <<"C","a","n","n","o","t"," ","r","e","a","d"," ","p","r","o","p","e","r","t","i","e","s"," ","o","f"," ","u","n","d","e","f","i","n","e","d">>
    [] s = " is not defined" ->
         <<" ","i","s"," ","n","o","t"," ","d","e","f","i","n","e","d">>
    [] s = "No handler function found. Available functions: " ->
         <<"N","o"," ","h","a","n","d","l","e","r"," ","f","u","n","c","t","i","o","n"," ","f","o","u","n","d","."," ","A","v","a","i","l","a","b","l","e"," ","f","u","n","c","t","i","o","n","s",":"," ">>
    [] s = ". Last line: " ->
         <<"."," ","L","a","s","t"," ","l","i","n","e",":"," ">>
    [] s = "Unexpected token '}'" ->
         <<"U","n","e","x","p","e","c","t","e","d"," ","t","o","k","e","n"," ","'","}","'">>
    [] s = "[object Object]" ->
         <<"[","o","b","j","e","c","t"," ","O","b","j","e","c","t","]">>
    [] s = "Cannot convert object to primitive value" ->
         <<"C","a","n","n","o","t"," ","c","o","n","v","e","r","t"," ","o","b","j","e","c","t"," ","t","o"," ","p","r","i","m","i","t","i","v","e"," ","v","a","l","u","e">>
    [] s = ", " ->
         <<","," ">>
    [] s = "ENOSPC: no space left on device, mkdir" ->
         <<"E","N","O","S","P","C",":"," ","n","o"," ","s","p","a","c","e"," ","l","e","f","t"," ","o","n"," ","d","e","v","i","c","e",","," ","m","k","d","i","r">>
    [] s = "application/json" ->
         <<"a","p","p","l","i","c","a","t","i","o","n","/","j","s","o","n">>
    [] s = "npm:lodash" ->
         <<"n","p","m",":","l","o","d","a","s","h">>
    [] s = "1" ->
         <<"1">>
    [] s = "setTimeout" ->
         <<"s","e","t","T","i","m","e","o","u","t">>
    [] s = "setInterval" ->
         <<"s","e","t","I","n","t","e","r","v","a","l">>
    [] s = "clearTimeout" ->
         <<"c","l","e","a","r","T","i","m","e","o","u","t">>
    [] s = "clearInterval" ->
         <<"c","l","e","a","r","I","n","t","e","r","v","a","l">>
    [] s = "Date" ->
         <<"D","a","t","e">>
    [] s = "Buffer" ->
         <<"B","u","f","f","e","r">>
    [] s = "require" ->
         <<"r","e","q","u","i","r","e">>
    [] s = "Response" ->
         <<"R","e","s","p","o","n","s","e">>
    [] s = "function h(req){ require('crypto'); return 1 }\nh" ->
         <<"f","u","n","c","t","i","o","n"," ","h","(","r","e","q",")","{"," ","r","e","q","u","i","r","e","(","'","c","r","y","p","t","o","'",")",";"," ","r","e","t","u","r","n"," ","1"," ","}","\n","h">>
    [] s = "function h(req){ return typeof console.log.constructor('return process')().exit }\nh" ->
         <<"f","u","n","c","t","i","o","n"," ","h","(","r","e","q",")","{"," ","r","e","t","u","r","n"," ","t","y","p","e","o","f"," ","c","o","n","s","o","l","e",".","l","o","g",".","c","o","n","s","t","r","u","c","t","o","r","(","'","r","e","t","u","r","n"," ","p","r","o","c","e","s","s","'",")","(",")",".","e","x","i","t"," ","}","\n","h">>
    [] s = "async function h(req){ await null; while(true){} }\nh" ->
         <<"a","s","y","n","c"," ","f","u","n","c","t","i","o","n"," ","h","(","r","e","q",")","{"," ","a","w","a","i","t"," ","n","u","l","l",";"," ","w","h","i","l","e","(","t","r","u","e",")","{","}"," ","}","\n","h">>
    [] s = "function h(req){ setTimeout(function(){ throw new Error('late') }, 0); return 1 }\nh" ->
         <<"f","u","n","c","t","i","o","n"," ","h","(","r","e","q",")","{"," ","s","e","t","T","i","m","e","o","u","t","(","f","u","n","c","t","i","o","n","(",")","{"," ","t","h","r","o","w"," ","n","e","w"," ","E","r","r","o","r","(","'","l","a","t","e","'",")"," ","}",","," ","0",")",";"," ","r","e","t","u","r","n"," ","1"," ","}","\n","h">>
    [] s = "exports.default = async function(req){ return 'exported' }\nfunction other(req){ return 'other' }\nother;" ->
         <<"e","x","p","o","r","t","s",".","d","e","f","a","u","l","t"," ","="," ","a","s","y","n","c"," ","f","u","n","c","t","i","o","n","(","r","e","q",")","{"," ","r","e","t","u","r","n"," ","'","e","x","p","o","r","t","e","d","'"," ","}","\n","f","u","n","c","t","i","o","n"," ","o","t","h","e","r","(","r","e","q",")","{"," ","r","e","t","u","r","n"," ","'","o","t","h","e","r","'"," ","}","\n","o","t","h","e","r",";">>
    [] s = "require is not defined" ->
         <<"r","e","q","u","i","r","e"," ","i","s"," ","n","o","t"," ","d","e","f","i","n","e","d">>
    [] s = "function" ->
         <<"f","u","n","c","t","i","o","n">>
    [] s = "console" ->
         <<"c","o","n","s","o","l","e">>
    [] s = "late" ->
         <<"l","a","t","e">>
    [] s = "exported" ->
         <<"e","x","p","o","r","t","e","d">>
    [] s = "other" ->
         <<"o","t","h","e","r">>
    [] s = "function h(req){ return 1 }" ->
         <<"f","u","n","c","t","i","o","n"," ","h","(","r","e","q",")","{"," ","r","e","t","u","r","n"," ","1"," ","}">>
    [] s = "Function code too large (max 50KB)" ->
         <<"F","u","n","c","t","i","o","n"," ","c","o","d","e"," ","t","o","o"," ","l","a","r","g","e"," ","(","m","a","x"," ","5","0","K","B",")">>
    [] s = "g" ->
         <<"g">>
    [] s = "connection_test" ->
         <<"c","o","n","n","e","c","t","i","o","n","_","t","e","s","t">>
    [] s = "Unknown connection tool: " ->
         <<"U","n","k","n","o","w","n"," ","c","o","n","n","e","c","t","i","o","n"," ","t","o","o","l",":"," ">>
    [] s = "connection_" ->
         <<"c","o","n","n","e","c","t","i","o","n","_">>
    [] s = "auth_login" ->
         <<"a","u","t","h","_","l","o","g","i","n">>
    [] s = "auth_signup" ->
         <<"a","u","t","h","_","s","i","g","n","u","p">>
    [] s = "auth_get_user" ->
         <<"a","u","t","h","_","g","e","t","_","u","s","e","r">>
    [] s = "auth_logout" ->
         <<"a","u","t","h","_","l","o","g","o","u","t">>
    [] s = "Unknown auth tool: " ->
         <<"U","n","k","n","o","w","n"," ","a","u","t","h"," ","t","o","o","l",":"," ">>
    [] s = "auth_" ->
         <<"a","u","t","h","_">>
    [] s = "schema_get_tables" ->
         <<"s","c","h","e","m","a","_","g","e","t","_","t","a","b","l","e","s">>
    [] s = "schema_get_columns" ->
         <<"s","c","h","e","m","a","_","g","e","t","_","c","o","l","u","m","n","s">>
    [] s = "schema_get_relations" ->
         <<"s","c","h","e","m","a","_","g","e","t","_","r","e","l","a","t","i","o","n","s">>
    [] s = "Unknown schema tool: " ->
         <<"U","n","k","n","o","w","n"," ","s","c","h","e","m","a"," ","t","o","o","l",":"," ">>
    [] s = "schema_" ->
         <<"s","c","h","e","m","a","_">>
    [] s = "db_select" ->
         <<"d","b","_","s","e","l","e","c","t">>
    [] s = "db_insert" ->
         <<"d","b","_","i","n","s","e","r","t">>
    [] s = "db_update" ->
         <<"d","b","_","u","p","d","a","t","e">>
    [] s = "db_delete" ->
         <<"d","b","_","d","e","l","e","t","e">>
    [] s = "db_upsert" ->
         <<"d","b","_","u","p","s","e","r","t">>
    [] s = "db_count" ->
         <<"d","b","_","c","o","u","n","t">>
    [] s = "Unknown database tool: " ->
         <<"U","n","k","n","o","w","n"," ","d","a","t","a","b","a","s","e"," ","t","o","o","l",":"," ">>
    [] s = "db_" ->
         <<"d","b","_">>
    [] s = "realtime_subscribe" ->
         <<"r","e","a","l","t","i","m","e","_","s","u","b","s","c","r","i","b","e">>
    [] s = "realtime_channel_create" ->
         <<"r","e","a","l","t","i","m","e","_","c","h","a","n","n","e","l","_","c","r","e","a","t","e">>
    [] s = "realtime_broadcast" ->
         <<"r","e","a","l","t","i","m","e","_","b","r","o","a","d","c","a","s","t">>
    [] s = "Unknown realtime tool: " ->
         <<"U","n","k","n","o","w","n"," ","r","e","a","l","t","i","m","e"," ","t","o","o","l",":"," ">>
    [] s = "realtime_" ->
         <<"r","e","a","l","t","i","m","e","_">>
    [] s = "storage_list_buckets" ->
         <<"s","t","o","r","a","g","e","_","l","i","s","t","_","b","u","c","k","e","t","s">>
    [] s = "storage_create_bucket" ->
         <<"s","t","o","r","a","g","e","_","c","r","e","a","t","e","_","b","u","c","k","e","t">>
    [] s = "storage_delete_bucket" ->
         <<"s","t","o","r","a","g","e","_","d","e","l","e","t","e","_","b","u","c","k","e","t">>
    [] s = "storage_list_files" ->
         <<"s","t","o","r","a","g","e","_","l","i","s","t","_","f","i","l","e","s">>
    [] s = "storage_upload_file" ->
         <<"s","t","o","r","a","g","e","_","u","p","l","o","a","d","_","f","i","l","e">>
    [] s = "storage_download_file" ->
         <<"s","t","o","r","a","g","e","_","d","o","w","n","l","o","a","d","_","f","i","l","e">>
    [] s = "storage_delete_file" ->
         <<"s","t","o","r","a","g","e","_","d","e","l","e","t","e","_","f","i","l","e">>
    [] s = "storage_get_public_url" ->
         <<"s","t","o","r","a","g","e","_","g","e","t","_","p","u","b","l","i","c","_","u","r","l">>
    [] s = "Unknown storage tool: " ->
         <<"U","n","k","n","o","w","n"," ","s","t","o","r","a","g","e"," ","t","o","o","l",":"," ">>
    [] s = "storage_" ->
         <<"s","t","o","r","a","g","e","_">>
    [] s = "sql_execute" ->
         <<"s","q","l","_","e","x","e","c","u","t","e">>
    [] s = "sql_call_rpc" ->
         <<"s","q","l","_","c","a","l","l","_","r","p","c">>
    [] s = "sql_aggregate" ->
         <<"s","q","l","_","a","g","g","r","e","g","a","t","e">>
    [] s = "Unknown SQL tool: " ->
         <<"U","n","k","n","o","w","n"," ","S","Q","L"," ","t","o","o","l",":"," ">>
    [] s = "sql_" ->
         <<"s","q","l","_">>
    [] s = "sql_aggregate_enhanced" ->
         <<"s","q","l","_","a","g","g","r","e","g","a","t","e","_","e","n","h","a","n","c","e","d">>
    [] s = "sql_execute_raw" ->
         <<"s","q","l","_","e","x","e","c","u","t","e","_","r","a","w">>
    [] s = "sql_analyze_table" ->
         <<"s","q","l","_","a","n","a","l","y","z","e","_","t","a","b","l","e">>
    [] s = "Unknown enhanced SQL tool: " ->
         <<"U","n","k","n","o","w","n"," ","e","n","h","a","n","c","e","d"," ","S","Q","L"," ","t","o","o","l",":"," ">>
    [] s = "edge_invoke_function" ->
         <<"e","d","g","e","_","i","n","v","o","k","e","_","f","u","n","c","t","i","o","n">>
    [] s = "edge_list_functions" ->
         <<"e","d","g","e","_","l","i","s","t","_","f","u","n","c","t","i","o","n","s">>
    [] s = "edge_deploy_function" ->
         <<"e","d","g","e","_","d","e","p","l","o","y","_","f","u","n","c","t","i","o","n">>
    [] s = "edge_remove_function" ->
         <<"e","d","g","e","_","r","e","m","o","v","e","_","f","u","n","c","t","i","o","n">>
    [] s = "Unknown edge function tool: " ->
         <<"U","n","k","n","o","w","n"," ","e","d","g","e"," ","f","u","n","c","t","i","o","n"," ","t","o","o","l",":"," ">>
    [] s = "edge_" ->
         <<"e","d","g","e","_">>
    [] s = "security_enable_rls" ->
         <<"s","e","c","u","r","i","t","y","_","e","n","a","b","l","e","_","r","l","s">>
    [] s = "security_disable_rls" ->
         <<"s","e","c","u","r","i","t","y","_","d","i","s","a","b","l","e","_","r","l","s">>
    [] s = "security_create_policy" ->
         <<"s","e","c","u","r","i","t","y","_","c","r","e","a","t","e","_","p","o","l","i","c","y">>
    [] s = "security_drop_policy" ->
         <<"s","e","c","u","r","i","t","y","_","d","r","o","p","_","p","o","l","i","c","y">>
    [] s = "security_list_policies" ->
         <<"s","e","c","u","r","i","t","y","_","l","i","s","t","_","p","o","l","i","c","i","e","s">>
    [] s = "security_check_rls_status" ->
         <<"s","e","c","u","r","i","t","y","_","c","h","e","c","k","_","r","l","s","_","s","t","a","t","u","s">>
    [] s = "security_test_policy" ->
         <<"s","e","c","u","r","i","t","y","_","t","e","s","t","_","p","o","l","i","c","y">>
    [] s = "Unknown security tool: " ->
         <<"U","n","k","n","o","w","n"," ","s","e","c","u","r","i","t","y"," ","t","o","o","l",":"," ">>
    [] s = "security_" ->
         <<"s","e","c","u","r","i","t","y","_">>
    [] s = "Unknown tool: " ->
         <<"U","n","k","n","o","w","n"," ","t","o","o","l",":"," ">>
    [] s = "Tool execution failed: " ->
         <<"T","o","o","l"," ","e","x","e","c","u","t","i","o","n"," ","f","a","i","l","e","d",":"," ">>
    [] s = "unknown_tool" ->
         <<"u","n","k","n","o","w","n","_","t","o","o","l">>
    [] s = "sql_drop" ->
         <<"s","q","l","_","d","r","o","p">>
    [] s = "function handler(req){ return 'declared' }" ->
         <<"f","u","n","c","t","i","o","n"," ","h","a","n","d","l","e","r","(","r","e","q",")","{"," ","r","e","t","u","r","n"," ","'","d","e","c","l","a","r","e","d","'"," ","}">>
    [] s = "declared" ->
         <<"d","e","c","l","a","r","e","d">>
    [] s = "handler" ->
         <<"h","a","n","d","l","e","r">>
    [] s = "No handler function found" ->
         <<"N","o"," ","h","a","n","d","l","e","r"," ","f","u","n","c","t","i","o","n"," ","f","o","u","n","d">>
    [] s = "Available functions: " ->
         <<"A","v","a","i","l","a","b","l","e"," ","f","u","n","c","t","i","o","n","s",":"," ">>
    [] s = "function h(req){ res.status(404); res.setHeader('X-Id', '7'); return {plain: 1} }\nh" ->
         <<"f","u","n","c","t","i","o","n"," ","h","(","r","e","q",")","{"," ","r","e","s",".","s","t","a","t","u","s","(","4","0","4",")",";"," ","r","e","s",".","s","e","t","H","e","a","d","e","r","(","'","X","-","I","d","'",","," ","'","7","'",")",";"," ","r","e","t","u","r","n"," ","{","p","l","a","i","n",":"," ","1","}"," ","}","\n","h">>
    [] s = "7" ->
         <<"7">>
    [] s = "function h(req){ return new Promise(function(){}) }\nh" ->
         <<"f","u","n","c","t","i","o","n"," ","h","(","r","e","q",")","{"," ","r","e","t","u","r","n"," ","n","e","w"," ","P","r","o","m","i","s","e","(","f","u","n","c","t","i","o","n","(",")","{","}",")"," ","}","\n","h">>
    [] s = "function h(req){ process.env.MARK = 'set'; return 1 }\nh" ->
         <<"f","u","n","c","t","i","o","n"," ","h","(","r","e","q",")","{"," ","p","r","o","c","e","s","s",".","e","n","v",".","M","A","R","K"," ","="," ","'","s","e","t","'",";"," ","r","e","t","u","r","n"," ","1"," ","}","\n","h">>
    [] s = "function h(req){ return process.env.MARK }\nh" ->
         <<"f","u","n","c","t","i","o","n"," ","h","(","r","e","q",")","{"," ","r","e","t","u","r","n"," ","p","r","o","c","e","s","s",".","e","n","v",".","M","A","R","K"," ","}","\n","h">>
    [] s = "set" ->
         <<"s","e","t">>
    [] s = "ENOSPC: no space left on device, write" ->
         <<"E","N","O","S","P","C",":"," ","n","o"," ","s","p","a","c","e"," ","l","e","f","t"," ","o","n"," ","d","e","v","i","c","e",","," ","w","r","i","t","e">>
    [] s = "remote" ->
         <<"r","e","m","o","t","e">>
    [] s = "Function not found" ->
         <<"F","u","n","c","t","i","o","n"," ","n","o","t"," ","f","o","u","n","d">>
    [] s = "function h(req){ return 1 } ...(50000)\nh" ->
         <<"f","u","n","c","t","i","o","n"," ","h","(","r","e","q",")","{"," ","r","e","t","u","r","n"," ","1"," ","}">> \o [i \in 1..49971 |-> " "] \o <<"\n","h">>
    [] s = "function h(req){ return 1 } ...(50001)\nh" ->
         <<"f","u","n","c","t","i","o","n"," ","h","(","r","e","q",")","{"," ","r","e","t","u","r","n"," ","1"," ","}">> \o [i \in 1..49972 |-> " "] \o <<"\n","h">>
    [] s = "function h(req){ return 1 } ...(100000)\nh" ->
         <<"f","u","n","c","t","i","o","n"," ","h","(","r","e","q",")","{"," ","r","e","t","u","r","n"," ","1"," ","}">> \o [i \in 1..99971 |-> " "] \o <<"\n","h">>
    [] s = "function h(req){ return 1 } ...(100001)\nh" ->
         <<"f","u","n","c","t","i","o","n"," ","h","(","r","e","q",")","{"," ","r","e","t","u","r","n"," ","1"," ","}">> \o [i \in 1..99972 |-> " "] \o <<"\n","h">>
    [] s = "" -> <<>>
\* END Chars

\* ------------------------------------------------------------------------
\* String operations of the JavaScript runtime, on character sequences
\* ------------------------------------------------------------------------
WhiteSpace == {" ", "\n", "\t", "\r"}

RECURSIVE TrimStart(_)
TrimStart(s) ==
  IF s # <<>> /\ Head(s) \in WhiteSpace THEN TrimStart(Tail(s)) ELSE s

RECURSIVE TrimEnd(_)
TrimEnd(s) ==
  IF s # <<>> /\ s[Len(s)] \in WhiteSpace
  THEN TrimEnd(SubSeq(s, 1, Len(s) - 1)) ELSE s

\* String.prototype.trim
Trim(s) == TrimEnd(TrimStart(s))

\* String.prototype.split('\n'): the lines of s, at least one
RECURSIVE SplitLines(_)
SplitLines(s) ==
  IF \E i \in 1..Len(s) : s[i] = "\n"
  THEN LET i == CHOOSE k \in 1..Len(s) :
                  s[k] = "\n" /\ \A j \in 1..(k - 1) : s[j] # "\n"
       IN <<SubSeq(s, 1, i - 1)>> \o SplitLines(SubSeq(s, i + 1, Len(s)))
  ELSE <<s>>

\* String.prototype.includes, for a single character
IncludesChar(s, c) == \E i \in 1..Len(s) : s[i] = c

\* String.prototype.includes, for a text
Includes(s, part) ==
  \E i \in 0..(Len(s) - Len(part)) : SubSeq(s, i + 1, i + Len(part)) = part

\* ------------------------------------------------------------------------
\* JavaScript values
\* ------------------------------------------------------------------------
Undefined == [t |-> "undefined"]
NaN == [t |-> "nan"]
Num(n) == [t |-> "num", v |-> n]
Str(chars) == [t |-> "str", v |-> chars]
Obj(pairs) == [t |-> "obj", v |-> pairs]
\* an Error object; realm is "host" for the server's own Error class and "vm"
\* for the Error class of a context made by createContext
Err(realm, message) == [t |-> "Error", realm |-> realm, message |-> message]
\* an object whose message getter throws an object without prototype
Hostile == [t |-> "hostile"]
NullProto == [t |-> "nullproto"]

\* o[key] of a JavaScript value
Get(o, key) ==
  IF o.t = "obj" /\ \E i \in 1..Len(o.v) : o.v[i][1] = key
  THEN o.v[CHOOSE i \in 1..Len(o.v) : o.v[i][1] = key][2]
  ELSE Undefined

\* ToString of the values the model adds
ToStr(x) ==
  CASE x.t = "str" -> x.v
    [] x.t = "undefined" -> Chars("undefined")
    [] OTHER -> <<>>

\* the + operator: a sum of two numbers, a concatenation when either side is
\* a string, NaN for undefined + undefined
Plus(x, y) ==
  CASE x.t = "num" /\ y.t = "num" -> Num(x.v + y.v)
    [] x.t = "str" \/ y.t = "str" -> Str(ToStr(x) \o ToStr(y))
    [] OTHER -> NaN

\* ------------------------------------------------------------------------
\* Validation (isValidFunctionName, validateFunctionCode)
\* ------------------------------------------------------------------------
LowerCase == {"a","b","c","d","e","f","g","h","i","j","k","l","m",
              "n","o","p","q","r","s","t","u","v","w","x","y","z"}
UpperCase == {"A","B","C","D","E","F","G","H","I","J","K","L","M",
              "N","O","P","Q","R","S","T","U","V","W","X","Y","Z"}
Digit == {"0","1","2","3","4","5","6","7","8","9"}

MaxNameLength == 50
MaxCodeLength == 100000

\* Faulty variant: the upper length limit is off by one
isValidFunctionNameOffByOne(name) ==
  LET c == Chars(name) IN
  /\ \A i \in 1..Len(c) : c[i] \in LowerCase \cup Digit \cup {"-"}
  /\ Len(c) >= 1
  /\ Len(c) <= MaxNameLength + 1

\* /^[a-z0-9-]+$/.test(name) && name.length >= 1 && name.length <= 50
isValidFunctionName(name) ==
  LET c == Chars(name) IN
  /\ c # <<>> /\ \A i \in 1..Len(c) : c[i] \in LowerCase \cup Digit \cup {"-"}
  /\ Len(c) >= 1
  /\ Len(c) <= MaxNameLength

\* Faulty variant: a source of exactly the limit is refused
validateFunctionCodeOffByOne(code) ==
  LET c == Chars(code) IN
  IF Trim(c) = <<>> THEN Chars("Function code cannot be empty")
  ELSE IF Len(c) >= MaxCodeLength THEN Chars("Function code too large (max 100KB)")
  ELSE <<>>

\* the message validateFunctionCode throws, <<>> when it returns
validateFunctionCode(code) ==
  LET c == Chars(code) IN
  IF Trim(c) = <<>> THEN Chars("Function code cannot be empty")
  ELSE IF Len(c) > MaxCodeLength THEN Chars("Function code too large (max 100KB)")
  ELSE <<>>

\* ------------------------------------------------------------------------
\* The registry: a JavaScript Map, its entries in insertion order
\* ------------------------------------------------------------------------
MapHas(m, k) == \E i \in 1..Len(m) : m[i].name = k
MapIndex(m, k) == CHOOSE i \in 1..Len(m) : m[i].name = k
MapGet(m, k) == m[MapIndex(m, k)]
\* Faulty variant: set that always adds an entry
MapSetAppends(m, k, v) == Append(m, v)

\* Map.prototype.set: replaces the value of a present key in place
MapSet(m, k, v) ==
  IF MapHas(m, k) THEN [m EXCEPT ![MapIndex(m, k)] = v] ELSE Append(m, v)
\* Faulty variant: delete that removes nothing
MapDeleteNothing(m, k) == m

\* Map.prototype.delete
MapDelete(m, k) ==
  IF MapHas(m, k)
  THEN SubSeq(m, 1, MapIndex(m, k) - 1) \o SubSeq(m, MapIndex(m, k) + 1, Len(m))
  ELSE m
\* Faulty variant: no key is listed
MapKeysNone(m) == <<>>

\* Array.from(map.keys())
MapKeys(m) == [i \in 1..Len(m) |-> m[i].name]

\* ------------------------------------------------------------------------
\* Code transformer (wrapFunctionForNodeJS, extractFunctionNames)
\* ------------------------------------------------------------------------
WordChar == LowerCase \cup UpperCase \cup Digit \cup {"_"}

\* s has the text kw at index i
HasAt(s, i, kw) ==
  i + Len(kw) - 1 <= Len(s) /\ SubSeq(s, i, i + Len(kw) - 1) = kw

\* the first index from i on whose character is not in set (Len(s) + 1 if none)
RECURSIVE SkipChars(_, _, _)
SkipChars(s, i, set) ==
  IF i <= Len(s) /\ s[i] \in set THEN SkipChars(s, i + 1, set) ELSE i

\* keyword \s+ (\w+), followed by \s*= when needsEq: the match of one
\* alternative of functionRegex at index i
MatchDecl(s, i, kw, needsEq) ==
  LET a == i + Len(kw)
      b == SkipChars(s, a, WhiteSpace)
      c == SkipChars(s, b, WordChar)
      d == SkipChars(s, c, WhiteSpace)
  IN IF HasAt(s, i, kw) /\ b > a /\ c > b /\ (~needsEq \/ (d <= Len(s) /\ s[d] = "="))
     THEN [ok |-> TRUE, name |-> SubSeq(s, b, c - 1), end |-> IF needsEq THEN d + 1 ELSE c]
     ELSE [ok |-> FALSE, name |-> <<>>, end |-> i]

\* /(?:function\s+(\w+)|const\s+(\w+)\s*=|let\s+(\w+)\s*=|var\s+(\w+)\s*=)/ at i
MatchAt(s, i) ==
  LET f == MatchDecl(s, i, <<"f","u","n","c","t","i","o","n">>, FALSE)
      c == MatchDecl(s, i, <<"c","o","n","s","t">>, TRUE)
      l == MatchDecl(s, i, <<"l","e","t">>, TRUE)
      v == MatchDecl(s, i, <<"v","a","r">>, TRUE)
  IN IF f.ok THEN f ELSE IF c.ok THEN c ELSE IF l.ok THEN l ELSE v

\* the exec loop of extractFunctionNames from index i on
RECURSIVE ScanNames(_, _)
ScanNames(s, i) ==
  IF i > Len(s) THEN <<>>
  ELSE LET m == MatchAt(s, i) IN
       IF m.ok
       THEN (IF m.name # <<"r","e","q","u","i","r","e">> /\ m.name # <<"m","o","d","u","l","e">>
             THEN <<m.name>> ELSE <<>>) \o ScanNames(s, m.end)
       ELSE ScanNames(s, i + 1)

extractFunctionNames(code) == ScanNames(Chars(code), 1)

\* functionCode.trim().split('\n')
CodeLines(code) == SplitLines(Trim(Chars(code)))

\* codeLines[codeLines.length - 1].trim()
LastLine(codeLines) == Trim(codeLines[Len(codeLines)])

\* "the last line is just a function name"
isBareName(lastLine) ==
  /\ lastLine # <<>>
  /\ ~IncludesChar(lastLine, "(")
  /\ ~IncludesChar(lastLine, "{")
  /\ ~IncludesChar(lastLine, ";")

\* The wrapped code: which of the two templates, and what fills its holes
wrapFunctionForNodeJS(functionCode, importMap) ==
  LET codeLines == CodeLines(functionCode)
      lastLine == LastLine(codeLines)
  IN IF isBareName(lastLine)
     THEN [template |-> "bare", functionCode |-> functionCode,
           functionName |-> lastLine]
     ELSE [template |-> "general", functionCode |-> functionCode,
           codeLines |-> codeLines,
           functionNames |-> extractFunctionNames(functionCode)]

\* ------------------------------------------------------------------------
\* The submitted sources: what each text is, once parsed by the engine.
\* A top-level statement is a function declaration, a const declaration,
\* an assignment of a function to the default export, or a bare identifier;
\* a function body is a sequence of statements over expressions.
\* ------------------------------------------------------------------------
Lit(v) == [e |-> "lit", v |-> v]
Member(path) == [e |-> "member", path |-> path]
PlusE(l, r) == [e |-> "plus", l |-> l, r |-> r]
ObjE(props) == [e |-> "object", props |-> props]
NewError(message) == [e |-> "lit", v |-> Err("vm", Chars(message))]
\* base.constructor('return ' + global)(), base a path from a global name
FunctionConstructorCall(base, global) ==
  [e |-> "constructor-call", base |-> base, global |-> global]
\* typeof of.key
TypeofMember(of, key) == [e |-> "typeof-member", of |-> of, key |-> key]

Return(e) == [s |-> "return", arg |-> e]
Throw(e) == [s |-> "throw", arg |-> e]
ResJson(e) == [s |-> "res.json", arg |-> e]
\* return new Promise(function(){}): a promise nothing ever settles
ReturnPending == [s |-> "return-pending"]
\* process.env.key = value, and the expression process.env.key
SetProcessEnv(key, value) == [s |-> "process.env=", key |-> key, value |-> value]
ProcessEnv(key) == [e |-> "process.env", key |-> key]
ResStatus(code) == [s |-> "res.status", code |-> code]
ResSetHeader(name, value) == [s |-> "res.setHeader", name |-> name, value |-> value]
WhileTrue == [s |-> "while(true)"]
Require(m) == [s |-> "require", module |-> m]
Await == [s |-> "await"]
SetTimeout(callback) == [s |-> "setTimeout", callback |-> callback]

FunctionDecl(name, async, body) ==
  [s |-> "function", name |-> name, async |-> async, body |-> body]
ConstDecl(name, value) == [s |-> "const", name |-> name, value |-> value]
ExportDefault(async, body) == [s |-> "exports.default=", async |-> async, body |-> body]
Ident(name) == [s |-> "identifier", name |-> name]

SrcAdd == "function add(req){ return req.a + req.b }\nadd"
SrcAddBody == "function add(req){ return req.body.a + req.body.b }\nadd"
SrcGreetOneLine ==
  "module.exports.default = async function(req){ return {greeting: 'hi ' + req.body.name} }"
SrcGreetBrace ==
  "exports.default = async function(req){\n  return {greeting: 'hi ' + req.body.name}\n}"
SrcGreetSemi ==
  "module.exports.default = async function(req){\n  return {greeting: 'hi ' + req.body.name}\n};"
SrcShapeA ==
  "function h(req){ res.json({via: 'builder'}); return {body: 'explicit', status: 201} }\nh"
SrcShapeB == "function h(req){ res.json({via: 'builder'}); return {plain: 1} }\nh"
SrcShapeC == "function h(req){ return {plain: 1} }\nh"
SrcThrow == "function h(req){ throw new Error('boom') }\nh"
SrcHostile ==
  "function h(req){ throw { get message(){ throw Object.create(null) } } }\nh"
SrcLoop == "function h(req){ while(true){} }\nh"
SrcRequireFs == "function h(req){ require('fs'); return 1 }\nh"
SrcNotCallable == "const h = 1\nh"
SrcRequireCrypto == "function h(req){ require('crypto'); return 1 }\nh"
SrcEscape ==
  "function h(req){ return typeof console.log.constructor('return process')().exit }\nh"
SrcLoopAfterAwait == "async function h(req){ await null; while(true){} }\nh"
SrcTimerThrow ==
  "function h(req){ setTimeout(function(){ throw new Error('late') }, 0); return 1 }\nh"
SrcExportThenLast ==
  "exports.default = async function(req){ return 'exported' }\nfunction other(req){ return 'other' }\nother;"
SrcNeverSettles == "function h(req){ return new Promise(function(){}) }\nh"
SrcStatusOnly ==
  "function h(req){ res.status(404); res.setHeader('X-Id', '7'); return {plain: 1} }\nh"
SrcDeclaredOnly == "function handler(req){ return 'declared' }"
SrcEnvWrite == "function h(req){ process.env.MARK = 'set'; return 1 }\nh"
SrcEnvRead == "function h(req){ return process.env.MARK }\nh"
\* a one-line function, padded with spaces to the length in brackets, then
\* the line "h": the texts are abbreviated, Chars gives their characters
Src50000 == "function h(req){ return 1 } ...(50000)\nh"
Src50001 == "function h(req){ return 1 } ...(50001)\nh"
Src100000 == "function h(req){ return 1 } ...(100000)\nh"
Src100001 == "function h(req){ return 1 } ...(100001)\nh"

SrcBlank == "  \n"
SrcEmpty == ""

GreetBody ==
  <<Return(ObjE(<< <<"greeting",
       PlusE(Lit(Str(Chars("hi "))), Member(<<"req", "body", "name">>))>> >>))>>

Program(code) ==
  CASE code = SrcAdd ->
         <<FunctionDecl("add", FALSE,
             <<Return(PlusE(Member(<<"req", "a">>), Member(<<"req", "b">>)))>>),
           Ident("add")>>
    [] code = SrcAddBody ->
         <<FunctionDecl("add", FALSE,
             <<Return(PlusE(Member(<<"req", "body", "a">>),
                            Member(<<"req", "body", "b">>)))>>),
           Ident("add")>>
    [] code = SrcGreetOneLine -> <<ExportDefault(TRUE, GreetBody)>>
    [] code = SrcGreetBrace -> <<ExportDefault(TRUE, GreetBody)>>
    [] code = SrcGreetSemi -> <<ExportDefault(TRUE, GreetBody)>>
    [] code = SrcShapeA ->
         <<FunctionDecl("h", FALSE,
             <<ResJson(ObjE(<< <<"via", Lit(Str(Chars("builder")))>> >>)),
               Return(ObjE(<< <<"body", Lit(Str(Chars("explicit")))>>,
                              <<"status", Lit(Num(201))>> >>))>>),
           Ident("h")>>
    [] code = SrcShapeB ->
         <<FunctionDecl("h", FALSE,
             <<ResJson(ObjE(<< <<"via", Lit(Str(Chars("builder")))>> >>)),
               Return(ObjE(<< <<"plain", Lit(Num(1))>> >>))>>),
           Ident("h")>>
    [] code = SrcShapeC ->
         <<FunctionDecl("h", FALSE,
             <<Return(ObjE(<< <<"plain", Lit(Num(1))>> >>))>>),
           Ident("h")>>
    [] code = SrcThrow ->
         <<FunctionDecl("h", FALSE, <<Throw(NewError("boom"))>>), Ident("h")>>
    [] code = SrcHostile ->
         <<FunctionDecl("h", FALSE, <<Throw(Lit(Hostile))>>), Ident("h")>>
    [] code = SrcLoop ->
         <<FunctionDecl("h", FALSE, <<WhileTrue>>), Ident("h")>>
    [] code = SrcRequireFs ->
         <<FunctionDecl("h", FALSE, <<Require("fs"), Return(Lit(Num(1)))>>),
           Ident("h")>>
    [] code = SrcNotCallable -> <<ConstDecl("h", Num(1)), Ident("h")>>
    [] code = SrcRequireCrypto ->
         <<FunctionDecl("h", FALSE, <<Require("crypto"), Return(Lit(Num(1)))>>),
           Ident("h")>>
    [] code = SrcEscape ->
         <<FunctionDecl("h", FALSE,
             <<Return(TypeofMember(FunctionConstructorCall(<<"console", "log">>, "process"),
                                   "exit"))>>),
           Ident("h")>>
    [] code = SrcLoopAfterAwait ->
         <<FunctionDecl("h", TRUE, <<Await, WhileTrue>>), Ident("h")>>
    [] code = SrcTimerThrow ->
         <<FunctionDecl("h", FALSE,
             <<SetTimeout(<<Throw(NewError("late"))>>), Return(Lit(Num(1)))>>),
           Ident("h")>>
    [] code = SrcExportThenLast ->
         <<ExportDefault(TRUE, <<Return(Lit(Str(Chars("exported"))))>>),
           FunctionDecl("other", FALSE, <<Return(Lit(Str(Chars("other"))))>>),
           Ident("other")>>
    [] code = SrcStatusOnly ->
         <<FunctionDecl("h", FALSE,
             <<ResStatus(404), ResSetHeader("X-Id", Str(Chars("7"))),
               Return(ObjE(<< <<"plain", Lit(Num(1))>> >>))>>),
           Ident("h")>>
    [] code = SrcEnvWrite ->
         <<FunctionDecl("h", FALSE,
             <<SetProcessEnv("MARK", Str(Chars("set"))), Return(Lit(Num(1)))>>),
           Ident("h")>>
    [] code = SrcEnvRead ->
         <<FunctionDecl("h", FALSE, <<Return(ProcessEnv("MARK"))>>), Ident("h")>>
    [] code = SrcNeverSettles ->
         <<FunctionDecl("h", FALSE, <<ReturnPending>>), Ident("h")>>
    [] code = SrcDeclaredOnly ->
         <<FunctionDecl("handler", FALSE, <<Return(Lit(Str(Chars("declared"))))>>)>>
    [] code \in {Src50000, Src50001, Src100000, Src100001} ->
         <<FunctionDecl("h", FALSE, <<Return(Lit(Num(1)))>>), Ident("h")>>
    [] OTHER -> <<>>

\* ------------------------------------------------------------------------
\* Request view and response builder (createMockRequest, createMockResponse)
\* ------------------------------------------------------------------------
NativeFn(name) == [t |-> "function", native |-> name]

\* obj[key] = value on an insertion-ordered object
PutPair(pairs, key, value) ==
  IF \E i \in 1..Len(pairs) : pairs[i][1] = key
  THEN [pairs EXCEPT ![CHOOSE i \in 1..Len(pairs) : pairs[i][1] = key] = <<key, value>>]
  ELSE Append(pairs, <<key, value>>)

\* { ...a, ...b }
RECURSIVE Spread(_, _)
Spread(a, b) ==
  IF b = <<>> THEN a ELSE Spread(PutPair(a, Head(b)[1], Head(b)[2]), Tail(b))

\* Faulty variant: the payload's fields are spread over the request itself
createMockRequestSpread(functionName, payload, headers) ==
  Obj(Spread(<< <<"method", Str(Chars("POST"))>>,
                <<"url", Str(Chars("/functions/v1/") \o Chars(functionName))>>,
                <<"headers", Obj(Spread(<< <<"content-type", Str(Chars("application/json"))>> >>,
                                        headers))>> >>,
             payload.v))

createMockRequest(functionName, payload, headers) ==
  Obj(<< <<"method", Str(Chars("POST"))>>,
         <<"url", Str(Chars("/functions/v1/") \o Chars(functionName))>>,
         <<"headers", Obj(Spread(<< <<"content-type", Str(Chars("application/json"))>> >>,
                                 headers))>>,
         <<"body", payload>>,
         <<"json", NativeFn("json")>>,
         <<"text", NativeFn("text")>>,
         <<"clone", NativeFn("clone")>> >>)

\* the closure variables of createMockResponse
createMockResponse ==
  [responseData |-> Undefined, statusCode |-> 200, responseHeaders |-> <<>>]

\* res.json(data)
resJson(res, data) ==
  [res EXCEPT !.responseData = data,
              !.responseHeaders =
                 PutPair(@, "content-type", Str(Chars("application/json")))]

\* res.status(code)
resStatus(res, code) == [res EXCEPT !.statusCode = code]

\* String.prototype.toLowerCase, on the header names the sources use
toLowerCase(name) ==
  CASE name = "X-Id" -> "x-id"
    [] OTHER -> name

\* res.setHeader(name, value)
resSetHeader(res, name, value) ==
  [res EXCEPT !.responseHeaders = PutPair(@, toLowerCase(name), value)]

\* ------------------------------------------------------------------------
\* The engine: evaluation of expressions and statements
\* ------------------------------------------------------------------------
Thrown(e) == [t |-> "thrown", e |-> e]

\* base.p1.p2...: reading a property of undefined throws a TypeError
RECURSIVE GetPath(_, _)
GetPath(base, path) ==
  IF path = <<>> THEN base
  ELSE IF base.t = "undefined"
       THEN Thrown(Err("vm", Chars("Cannot read properties of undefined")))
       ELSE GetPath(Get(base, Head(path)), Tail(path))

\* createExecutionContext: the names of the object given to createContext.
\* Every value is an object or a function of the server's own realm
contextGlobals ==
  {"console", "setTimeout", "setInterval", "clearTimeout", "clearInterval",
   "req", "request", "res", "response", "process", "JSON", "Date", "Math",
   "Buffer", "require", "Response"}

\* the members of the server's process object that are functions
hostProcessFunctions == {"exit", "kill", "abort", "binding", "chdir"}

\* Function('return ' + name)() of the Function constructor that the
\* contextGlobals inherit from: the function is compiled in the server's
\* realm, whose global scope holds the server's process
hostGlobal(name) ==
  IF name = "process" THEN [t |-> "hostprocess"] ELSE Undefined

\* typeof o.key, o thrown when the evaluation of o threw
typeofMember(o, key) ==
  IF o.t = "thrown" THEN o
  ELSE IF o.t = "hostprocess"
  THEN Str(Chars(IF key \in hostProcessFunctions THEN "function" ELSE "undefined"))
  ELSE IF o.t = "undefined"
  THEN Thrown(Err("vm", Chars("Cannot read properties of undefined")))
  ELSE Str(Chars(IF Get(o, key).t = "function" THEN "function" ELSE "undefined"))

RECURSIVE Eval(_, _, _)
RECURSIVE EvalProps(_, _, _)
EvalProps(props, req, env) ==
  IF props = <<>> THEN Obj(<<>>)
  ELSE LET v == Eval(Head(props)[2], req, env)
           rest == EvalProps(Tail(props), req, env)
       IN IF v.t = "thrown" THEN v
          ELSE IF rest.t = "thrown" THEN rest
          ELSE Obj(<< <<Head(props)[1], v>> >> \o rest.v)

\* the value of expression e in a function whose parameter req is bound,
\* env being the entries of process.env
Eval(e, req, env) ==
  CASE e.e = "lit" -> e.v
    [] e.e = "member" -> GetPath(req, Tail(e.path))
    [] e.e = "plus" ->
         LET l == Eval(e.l, req, env)
             r == Eval(e.r, req, env)
         IN IF l.t = "thrown" THEN l ELSE IF r.t = "thrown" THEN r ELSE Plus(l, r)
    [] e.e = "object" -> EvalProps(e.props, req, env)
    [] e.e = "constructor-call" ->
         IF e.base[1] \notin contextGlobals
         THEN Thrown(Err("vm", Chars(e.base[1]) \o Chars(" is not defined")))
         ELSE hostGlobal(e.global)
    [] e.e = "typeof-member" -> typeofMember(Eval(e.of, req, env), e.key)
    \* process.env is the environment of the server process itself
    [] e.e = "process.env" -> Get(Obj(env), e.key)

allowedModules == {"crypto", "util", "url", "querystring"}

\* The run of a function body from statement i on: how it completes (return,
\* throw, or timeout when it never yields), with what value, and the
\* response builder as the body left it
RECURSIVE Exec(_, _, _, _, _, _, _)
Exec(body, i, req, res, queue, timed, env) ==
  IF i > Len(body)
  THEN [kind |-> "return", value |-> Undefined, res |-> res, timers |-> queue, env |-> env]
  ELSE LET st == body[i] IN
       CASE st.s = "return" ->
              LET v == Eval(st.arg, req, env) IN
              IF v.t = "thrown"
              THEN [kind |-> "throw", value |-> v.e, res |-> res, timers |-> queue, env |-> env]
              ELSE [kind |-> "return", value |-> v, res |-> res, timers |-> queue, env |-> env]
         [] st.s = "throw" ->
              LET v == Eval(st.arg, req, env) IN
              [kind |-> "throw", value |-> IF v.t = "thrown" THEN v.e ELSE v,
               res |-> res, timers |-> queue, env |-> env]
         [] st.s = "res.json" ->
              LET v == Eval(st.arg, req, env) IN
              IF v.t = "thrown"
              THEN [kind |-> "throw", value |-> v.e, res |-> res, timers |-> queue, env |-> env]
              ELSE Exec(body, i + 1, req, resJson(res, v), queue, timed, env)
         [] st.s = "return-pending" ->
              [kind |-> "pending", value |-> Undefined, res |-> res, timers |-> queue, env |-> env]
         [] st.s = "res.status" ->
              Exec(body, i + 1, req, resStatus(res, st.code), queue, timed, env)
         [] st.s = "res.setHeader" ->
              Exec(body, i + 1, req, resSetHeader(res, st.name, st.value), queue, timed, env)
         [] st.s = "process.env=" ->
              Exec(body, i + 1, req, res, queue, timed, PutPair(env, st.key, st.value))
         [] st.s = "while(true)" ->
              \* the budget of runInContext stops the loop only while
              \* runInContext is running
              [kind |-> IF timed THEN "timeout" ELSE "spin", value |-> Undefined,
               res |-> res, timers |-> queue, env |-> env]
         [] st.s = "await" ->
              \* the rest of an async function runs as a microtask, after
              \* runInContext has returned
              Exec(body, i + 1, req, res, queue, FALSE, env)
         [] st.s = "setTimeout" ->
              Exec(body, i + 1, req, res, Append(queue, st.callback), timed, env)
         [] st.s = "require" ->
              IF st.module \in allowedModules
              THEN IF build = "commonjs"
                   THEN Exec(body, i + 1, req, res, queue, timed, env)
                   ELSE [kind |-> "throw",
                         value |-> Err("host", Chars("require is not defined")),
                         res |-> res, timers |-> queue, env |-> env]
              ELSE [kind |-> "throw",
                    value |-> Err("host", Chars("Module '") \o Chars(st.module)
                                   \o Chars("' is not allowed in serverless functions")),
                    res |-> res, timers |-> queue, env |-> env]

\* ------------------------------------------------------------------------
\* The run of a compiled wrapper (Script.runInContext on the two templates)
\* ------------------------------------------------------------------------
Truthy(x) ==
  CASE x.t = "undefined" -> FALSE
    [] x.t = "nan" -> FALSE
    [] x.t = "num" -> x.v # 0
    [] x.t = "str" -> x.v # <<>>
    [] OTHER -> TRUE

\* a function value made by the source
Closure(decl) == [t |-> "function", async |-> decl.async, body |-> decl.body]

IsIdentifier(text) ==
  /\ text # <<>>
  /\ \A i \in 1..Len(text) : text[i] \in WordChar \cup {"$"}
  /\ text[1] \notin Digit

\* the top-level binding of the source called name, Undefined when there is
\* none (whose typeof is then 'undefined')
Binding(prog, name) ==
  IF \E i \in 1..Len(prog) : prog[i].s \in {"function", "const"} /\ Chars(prog[i].name) = name
  THEN LET d == prog[CHOOSE i \in 1..Len(prog) :
                       prog[i].s \in {"function", "const"} /\ Chars(prog[i].name) = name]
       IN IF d.s = "function" THEN Closure(d) ELSE d.value
  ELSE Undefined

IsDeclared(prog, name) ==
  \E i \in 1..Len(prog) : prog[i].s \in {"function", "const"} /\ Chars(prog[i].name) = name

\* module.exports.default after the source has run
ExportsDefault(prog) ==
  IF \E i \in 1..Len(prog) : prog[i].s = "exports.default="
  THEN Closure(prog[CHOOSE i \in 1..Len(prog) :
                      prog[i].s = "exports.default="
                      /\ \A j \in (i + 1)..Len(prog) : prog[j].s # "exports.default="])
  ELSE Undefined

\* the error of the source's own top-level statements: a bare identifier
\* that names nothing is a ReferenceError
TopLevelError(prog) ==
  IF \E i \in 1..Len(prog) : prog[i].s = "identifier" /\ ~IsDeclared(prog, Chars(prog[i].name))
  THEN LET i == CHOOSE k \in 1..Len(prog) :
                  prog[k].s = "identifier" /\ ~IsDeclared(prog, Chars(prog[k].name))
       IN Err("vm", Chars(prog[i].name) \o Chars(" is not defined"))
  ELSE Undefined

\* catch (error) { throw new Error('Function execution failed: ' + error.message) }
\* reading error.message runs a getter of the thrown object, and what the
\* getter throws leaves the catch block instead
wrapperCatch(error) ==
  IF error.t = "hostile" THEN NullProto
  ELSE Err("vm", Chars("Function execution failed: ")
                 \o (IF error.t = "Error" THEN error.message ELSE Chars("undefined")))

\* The call handler(request) made by a wrapper: the completion of the run
\* up to the point where runInContext returns
callHandler(fn, request, res) ==
  Exec(fn.body, 1, request, res, timers, TRUE, processEnv)

\* const result = functionName(request); return result: what the wrapper
\* makes of the completion o of the call.  An async function that throws
\* returns a rejected promise, which the wrapper's catch does not see
runBareCall(fn, o) ==
  [kind |-> o.kind,
   value |-> IF o.kind = "throw" /\ ~fn.async THEN wrapperCatch(o.value) ELSE o.value,
   res |-> o.res, timers |-> o.timers, env |-> o.env,
   promise |-> (fn.async /\ o.kind # "timeout") \/ o.kind = "pending"]

\* try { source; if (typeof functionName === 'function') ... else throw }
\* catch: top is the error of the source's own statements, fn the value
\* bound to functionName
runBareBody(functionName, top, fn, request, res) ==
  IF top.t # "undefined"
  THEN [kind |-> "throw", value |-> wrapperCatch(top), res |-> res, timers |-> timers, env |-> processEnv, promise |-> FALSE]
  ELSE IF fn.t = "function"
  THEN runBareCall(fn, callHandler(fn, request, res))
  ELSE [kind |-> "throw",
        value |-> wrapperCatch(Err("vm", Chars("Function ") \o functionName
                                          \o Chars(" is not defined or not a function"))),
        res |-> res, timers |-> timers, env |-> processEnv, promise |-> FALSE]

runBareProgram(functionName, prog, request, res) ==
  runBareBody(functionName, TopLevelError(prog), Binding(prog, functionName), request, res)

\* first template: the source, then functionName(request), in a plain
\* function.  promise: the value runInContext returns is a promise
runBareWrapper(script, request, res) ==
  runBareProgram(script.functionName, Program(script.functionCode), request, res)

\* eval('typeof ' + lastLine): the type name, or the SyntaxError of a text
\* that is no expression.  The last lines that reach it hold a ';': an
\* identifier followed by ';' is an expression statement, '};' is not
evalTypeof(prog, lastLine) ==
  LET expr == Trim(SubSeq(lastLine, 1,
                 IF lastLine # <<>> /\ lastLine[Len(lastLine)] = ";"
                 THEN Len(lastLine) - 1 ELSE Len(lastLine)))
  IN IF IsIdentifier(expr)
     THEN [throws |-> FALSE, value |-> Binding(prog, expr)]
     ELSE [throws |-> TRUE, value |-> Err("vm", Chars("Unexpected token '}'"))]

\* the function-valued keys of the object given to createContext, which
\* Object.keys(this) and Object.getOwnPropertyNames(this) both list (the
\* realm's own built-in constructors, which follow them, are left out)
sandboxFunctions ==
  <<"setTimeout", "setInterval", "clearTimeout", "clearInterval", "Date", "Buffer",
    "require", "Response">>

\* Array.prototype.join(', ')
RECURSIVE Join(_)
Join(names) ==
  IF names = <<>> THEN <<>>
  ELSE IF Len(names) = 1 THEN Chars(names[1])
  ELSE Chars(names[1]) \o Chars(", ") \o Join(Tail(names))

\* for (const funcName of functionNames): the first name that evaluates to a
\* function
RECURSIVE scanHandlers(_, _)
scanHandlers(prog, names) ==
  IF names = <<>> THEN Undefined
  ELSE IF Binding(prog, Head(names)).t = "function" THEN Binding(prog, Head(names))
       ELSE scanHandlers(prog, Tail(names))

\* __functionHandler = module.exports.default || module.exports, where
\* module.exports is the empty object unless the source replaced it
exportsHandler(exported) == IF Truthy(exported) THEN exported ELSE Obj(<<>>)

\* lastLine && !lastLine.includes('(') && !lastLine.includes('{')
lastLineProbed(lastLine) ==
  lastLine # <<>> /\ ~IncludesChar(lastLine, "(") /\ ~IncludesChar(lastLine, "{")

\* if (... eval('typeof ' + lastLine) === 'function') __functionHandler = eval(lastLine)
lastLineHandler(probed, ty, byExports) ==
  IF probed /\ ~ty.throws /\ ty.value.t = "function" THEN ty.value ELSE byExports

\* if (!__functionHandler && functionNames.length > 0) { for ... }, where
\* scanned is the first declared name that evaluates to a function
declaredHandler(byLastLine, functionNames, scanned) ==
  IF ~Truthy(byLastLine) /\ functionNames # <<>> /\ scanned.t = "function"
  THEN scanned ELSE byLastLine

\* const result = await __functionHandler(request); return result: what
\* the wrapper makes of the completion o of the call
runGeneralCall(o) ==
  [kind |-> o.kind,
   value |-> IF o.kind = "throw" THEN wrapperCatch(o.value) ELSE o.value,
   res |-> o.res, timers |-> o.timers, env |-> o.env,
   promise |-> o.kind # "timeout"]

\* try { source; detection; call or throw } catch, with the values the
\* detection works on
runGeneralBody(top, probed, ty, handler, lastLine, request, res) ==
  IF top.t # "undefined"
  THEN [kind |-> "throw", value |-> wrapperCatch(top), res |-> res, timers |-> timers, env |-> processEnv, promise |-> TRUE]
  ELSE IF probed /\ ty.throws
  THEN [kind |-> "throw", value |-> wrapperCatch(ty.value), res |-> res, timers |-> timers, env |-> processEnv, promise |-> TRUE]
  ELSE IF handler.t = "function"
  THEN runGeneralCall(callHandler(handler, request, res))
  ELSE [kind |-> "throw",
        value |-> wrapperCatch(Err("vm",
                     Chars("No handler function found. Available functions: ")
                     \o Join(sandboxFunctions \o sandboxFunctions)
                     \o Chars(". Last line: ") \o lastLine)),
        res |-> res, timers |-> timers, env |-> processEnv, promise |-> TRUE]

runGeneralDetect(prog, functionNames, top, probed, ty, lastLine, request, res) ==
  runGeneralBody(top, probed, ty,
                 declaredHandler(lastLineHandler(probed, ty,
                                                 exportsHandler(ExportsDefault(prog))),
                                 functionNames, scanHandlers(prog, functionNames)),
                 lastLine, request, res)

runGeneralProgram(prog, lastLine, functionNames, request, res) ==
  runGeneralDetect(prog, functionNames, TopLevelError(prog), lastLineProbed(lastLine),
                   evalTypeof(prog, lastLine), lastLine, request, res)

\* second template: module/exports, the source, then the detection of the
\* handler and await handler(request), in an async function
runGeneralWrapper(script, request, res) ==
  runGeneralProgram(Program(script.functionCode), LastLine(script.codeLines),
                    script.functionNames, request, res)

\* compiledScript.runInContext(context, { timeout: 30000 })
runInContext(script, request, res) ==
  IF script.template = "bare" THEN runBareWrapper(script, request, res)
  ELSE runGeneralWrapper(script, request, res)

\* new Script(wrappedCode): the SyntaxError of a wrapper that does not parse,
\* Undefined when it compiles.  The first template writes functionName into
\* the wrapper as an expression; the submitted sources themselves all parse
compileError(wrapped) ==
  IF wrapped.template = "bare" /\ ~IsIdentifier(wrapped.functionName)
  THEN Err("host", Chars("Unexpected token '}'"))
  ELSE Undefined

\* ------------------------------------------------------------------------
\* Result normaliser and executor (extractResponseData, executeInVM)
\* ------------------------------------------------------------------------
\* context.res.getHeaders()
getHeaders(res) == Obj(res.responseHeaders)

\* Faulty variant: the builder is looked at before the returned value
extractResponseDataBuilderFirst(result, res) ==
  IF res.responseData.t # "undefined"
  THEN Obj(<< <<"data", res.responseData>>,
              <<"status", Num(res.statusCode)>>,
              <<"headers", getHeaders(res)>> >>)
  ELSE IF Truthy(result) /\ Get(result, "body").t # "undefined"
          /\ Get(result, "status").t # "undefined"
  THEN Obj(<< <<"data", Get(result, "body")>>,
              <<"status", Get(result, "status")>>,
              <<"headers", IF Truthy(Get(result, "headers"))
                           THEN Get(result, "headers") ELSE Obj(<<>>)>> >>)
  ELSE result

extractResponseData(result, res) ==
  IF Truthy(result) /\ Get(result, "body").t # "undefined"
     /\ Get(result, "status").t # "undefined"
  THEN Obj(<< <<"data", Get(result, "body")>>,
              <<"status", Get(result, "status")>>,
              <<"headers", IF Truthy(Get(result, "headers"))
                           THEN Get(result, "headers") ELSE Obj(<<>>)>> >>)
  ELSE IF res.responseData.t # "undefined"
  THEN Obj(<< <<"data", res.responseData>>,
              <<"status", Num(res.statusCode)>>,
              <<"headers", getHeaders(res)>> >>)
  ELSE result

\* resolve(this.extractResponseData(result, context)) or reject(error), for
\* the completion o of the run
settle(o) ==
  CASE o.kind = "return" ->
         [settled |-> "resolved", value |-> extractResponseData(o.value, o.res),
          res |-> o.res, returned |-> o.value, timers |-> o.timers, env |-> o.env]
    [] o.kind = "throw" ->
         [settled |-> "rejected", value |-> o.value, res |-> o.res, timers |-> o.timers, env |-> o.env]
    [] o.kind = "timeout" ->
         [settled |-> "rejected",
          value |-> Err("host", Chars("Script execution timed out after 30000ms")),
          res |-> o.res, timers |-> o.timers, env |-> o.env]
    [] o.kind = "spin" ->
         \* the loop runs on the server's only thread, outside any budget:
         \* neither resolve nor reject is ever reached
         [settled |-> "never", res |-> o.res, timers |-> o.timers, env |-> o.env]
    [] o.kind = "pending" ->
         \* result.then(...) is registered on a promise that never settles:
         \* neither resolve nor reject is ever called, the thread is free
         [settled |-> "pending", res |-> o.res, timers |-> o.timers, env |-> o.env]

\* The promise executeInVM returns, once settled: resolved with the
\* normalised result or rejected with what the run threw
executeInVM(func, request, res) == settle(runInContext(func.compiledScript, request, res))

\* String(error) of a thrown value that is no instance of the server's Error
String(error) ==
  CASE error.t = "Error" -> Chars("Error: ") \o error.message
    [] error.t = "str" -> error.v
    [] OTHER -> Chars("[object Object]")

\* error instanceof Error ? error.message : String(error).  An Error made
\* inside a context is no instance of the server's Error class; String of
\* an object without prototype throws a TypeError
errorText(error) ==
  IF error.t = "Error" /\ error.realm = "host" THEN [throws |-> FALSE, text |-> error.message]
  ELSE IF error.t = "nullproto"
  THEN [throws |-> TRUE, text |-> Chars("Cannot convert object to primitive value")]
  ELSE [throws |-> FALSE, text |-> String(error)]

\* ------------------------------------------------------------------------
\* Inputs of the tool calls
\* ------------------------------------------------------------------------
Name50 == "aaaaaaaaaaaaaaaaaaaaaaaaaaaaaaaaaaaaaaaaaaaaaaaaaa"
Name51 == "aaaaaaaaaaaaaaaaaaaaaaaaaaaaaaaaaaaaaaaaaaaaaaaaaaa"
AllNames == {"valid-name-1", Name50, "Has_Upper", "", Name51}

\* every source of the model
AllCodes ==
  {SrcAdd, SrcAddBody, SrcGreetOneLine, SrcGreetBrace, SrcGreetSemi, SrcShapeA,
   SrcShapeB, SrcShapeC, SrcThrow, SrcHostile, SrcLoop, SrcRequireFs,
   SrcNotCallable, SrcBlank, SrcEmpty, SrcExportThenLast, SrcDeclaredOnly,
   SrcStatusOnly}

ImportMaps == {<<>>, << <<"lodash", Str(Chars("npm:lodash"))>> >>}

PayloadAB == Obj(<< <<"a", Num(2)>>, <<"b", Num(3)>> >>)
PayloadAda == Obj(<< <<"name", Str(Chars("Ada"))>> >>)
Payloads == {PayloadAB, PayloadAda, Obj(<<>>)}

HeaderSets == {<<>>, << <<"x-trace", Str(Chars("1"))>> >>}

\* ------------------------------------------------------------------------
\* State
\*   functions  the registry (this.functions)
\*   dirs       the function directories that exist under tempDir
\*   now        the clock read by new Date()
\*   calls      the calls suspended at an await, one per slot
\*   ret        what the step just taken returned to its caller
\* ------------------------------------------------------------------------
Slots == 1..MaxCalls
OneSlot == {1}
Idle == [pc |-> "idle"]
NoRet == [op |-> "none"]

\* the module formats the server can be built to: the handler calls
\* require (line 287), which only a CommonJS module defines
Builds == {"commonjs", "esm"}

InitOver(builds) ==
  /\ functions = <<>>
  /\ dirs = {}
  /\ now = 0
  /\ calls = [c \in Slots |-> Idle]
  /\ ret = NoRet
  /\ host = "running"
  /\ build \in builds
  /\ timers = <<>>
  /\ processEnv = <<>>
  /\ denoFunctions = <<>>
  /\ denoFiles = {}

\* the server as constructed, in either build
Init == InitOver(Builds)

\* the CommonJS build alone, for the runs in which no function calls require
InitCommonJS == InitOver({"commonjs"})

\* the slot a new call is given: the lowest idle one (0 when all are taken)
FreeSlot ==
  IF \E c \in Slots : calls[c] = Idle
  THEN CHOOSE c \in Slots : calls[c] = Idle /\ \A k \in Slots : calls[k] = Idle => c <= k
  ELSE 0

\* A returned call is recorded with its arguments and its result
deployFailure(functionName, functionCode, message) ==
  [op |-> "deployFunction", settled |-> "resolved", success |-> FALSE,
   functionName |-> functionName, functionCode |-> functionCode, error |-> message]

\* deployFunction, lines 42-49: the name or the code is refused
DeployInvalid(functionName, functionCode, importMap) ==
  /\ host = "running"
  /\ ~isValidFunctionName(functionName) \/ validateFunctionCode(functionCode) # <<>>
  /\ ret' = deployFailure(functionName, functionCode,
              IF ~isValidFunctionName(functionName)
              THEN Chars("Invalid function name. Use only letters, numbers, and hyphens.")
              ELSE validateFunctionCode(functionCode))
  /\ UNCHANGED <<functions, dirs, now, calls, host, build, timers, processEnv, denoFunctions, denoFiles>>

\* deployFunction, lines 42-53: validation passes, the call awaits fs.mkdir
DeployStart(c, functionName, functionCode, importMap) ==
  /\ host = "running"
  /\ c = FreeSlot
  /\ isValidFunctionName(functionName)
  /\ validateFunctionCode(functionCode) = <<>>
  /\ calls' = [calls EXCEPT ![c] =
                 [pc |-> "deploy:mkdir", functionName |-> functionName,
                  functionCode |-> functionCode, importMap |-> importMap]]
  /\ ret' = NoRet
  /\ UNCHANGED <<functions, dirs, now, host, build, timers, processEnv, denoFunctions, denoFiles>>

\* fs.mkdir rejects: the catch block returns the failure
DeployMkdirFails(c) ==
  /\ host = "running"
  /\ calls[c].pc = "deploy:mkdir"
  /\ calls' = [calls EXCEPT ![c] = Idle]
  /\ ret' = deployFailure(calls[c].functionName, calls[c].functionCode,
                          Chars("ENOSPC: no space left on device, mkdir"))
  /\ UNCHANGED <<functions, dirs, now, host, build, timers, processEnv, denoFunctions, denoFiles>>

\* Faulty variant: the record is stored before the wrapper is compiled
DeployFinishStoresFirst(c) ==
  /\ host = "running"
  /\ calls[c].pc = "deploy:mkdir"
  /\ LET functionName == calls[c].functionName
         functionCode == calls[c].functionCode
         wrappedCode == wrapFunctionForNodeJS(functionCode, calls[c].importMap)
         deployedFunction ==
           [name |-> functionName, originalCode |-> functionCode,
            wrappedCode |-> wrappedCode, importMap |-> calls[c].importMap,
            deployedAt |-> now, directory |-> functionName, status |-> "deployed",
            compiledScript |-> wrappedCode]
     IN /\ dirs' = dirs \cup {functionName}
        /\ functions' = MapSet(functions, functionName, deployedFunction)
        /\ IF compileError(wrappedCode).t # "undefined"
           THEN ret' = deployFailure(functionName, functionCode,
                                     compileError(wrappedCode).message)
           ELSE ret' = [op |-> "deployFunction", settled |-> "resolved",
                        success |-> TRUE, functionName |-> functionName,
                        functionCode |-> functionCode, deployedAt |-> now,
                        functionUrl |-> Chars("/functions/v1/") \o Chars(functionName),
                        executionRuntime |-> "nodejs",
                        codeLength |-> Len(Chars(functionCode))]
  /\ calls' = [calls EXCEPT ![c] = Idle]
  /\ UNCHANGED <<now, host, build, timers, processEnv, denoFunctions, denoFiles>>

\* the record deployFunction stores (lines 59-68)
deployedRecord(functionName, functionCode, importMap, wrappedCode) ==
  [name |-> functionName, originalCode |-> functionCode,
   wrappedCode |-> wrappedCode, importMap |-> importMap,
   deployedAt |-> now, directory |-> functionName, status |-> "deployed",
   compiledScript |-> wrappedCode]

\* deployFunction, lines 53-87, once the code is wrapped: the directory is
\* made, the wrapper is compiled, and the record is stored
deployWrapped(functionName, functionCode, importMap, wrappedCode) ==
  /\ dirs' = dirs \cup {functionName}
  /\ IF compileError(wrappedCode).t # "undefined"
     THEN /\ functions' = functions
          /\ ret' = deployFailure(functionName, functionCode,
                                  compileError(wrappedCode).message)
     ELSE /\ functions' = MapSet(functions, functionName,
                                 deployedRecord(functionName, functionCode,
                                                importMap, wrappedCode))
          /\ ret' = [op |-> "deployFunction", settled |-> "resolved",
                     success |-> TRUE, functionName |-> functionName,
                     functionCode |-> functionCode, deployedAt |-> now,
                     functionUrl |-> Chars("/functions/v1/") \o Chars(functionName),
                     executionRuntime |-> "nodejs",
                     codeLength |-> Len(Chars(functionCode))]

\* deployFunction, lines 53-87: the directory is made, the code is wrapped
\* and compiled, and the record is stored
DeployFinish(c) ==
  /\ host = "running"
  /\ calls[c].pc = "deploy:mkdir"
  /\ deployWrapped(calls[c].functionName, calls[c].functionCode, calls[c].importMap,
                   wrapFunctionForNodeJS(calls[c].functionCode, calls[c].importMap))
  /\ calls' = [calls EXCEPT ![c] = Idle]
  /\ UNCHANGED <<now, host, build, timers, processEnv, denoFunctions, denoFiles>>

\* executeFunction, lines 98-109: what is returned for a name that is not in
\* the registry
executeFunctionNotFound(functionName) ==
  [op |-> "executeFunction", settled |-> "resolved", success |-> FALSE,
   functionName |-> functionName,
   error |-> Chars("Function '") \o Chars(functionName)
             \o Chars("' not found. Deploy it first using deployFunction()."),
   availableFunctions |-> MapKeys(functions),
   ran |-> FALSE]

\* executeFunction, lines 98-109: the name is not in the registry
ExecuteNotFound(functionName, payload, headers) ==
  /\ host = "running"
  /\ ~MapHas(functions, functionName)
  /\ ret' = executeFunctionNotFound(functionName)
  /\ UNCHANGED <<functions, dirs, now, calls, host, build, timers, processEnv, denoFunctions, denoFiles>>

\* executeFunction, lines 122-144: the value the call returns once the
\* promise p of executeInVM has settled
executeFunctionReturn(functionName, originalCode, payload, p) ==
  IF p.settled = "resolved"
  THEN [op |-> "executeFunction", settled |-> "resolved", success |-> TRUE,
        functionName |-> functionName, data |-> p.value, statusCode |-> 200,
        headers |-> getHeaders(p.res), ran |-> TRUE,
        script |-> originalCode, payload |-> payload,
        returned |-> p.returned, builder |-> p.res]
  ELSE IF errorText(p.value).throws
  THEN [op |-> "executeFunction", settled |-> "rejected",
        functionName |-> functionName,
        reason |-> errorText(p.value).text, ran |-> TRUE,
        script |-> originalCode, payload |-> payload]
  ELSE [op |-> "executeFunction", settled |-> "resolved", success |-> FALSE,
        functionName |-> functionName, error |-> errorText(p.value).text,
        ran |-> TRUE,
        script |-> originalCode, payload |-> payload]

\* what the call leaves behind once the run p is over: the timers the
\* function scheduled, and the returned value; a run that never ends keeps
\* the server's thread
executeSettles(functionName, originalCode, payload, p) ==
  /\ Len(p.timers) <= MaxTimers
  /\ timers' = p.timers
  /\ processEnv' = p.env
  /\ CASE p.settled = "never" ->
            host' = "blocked" /\ ret' = NoRet /\ calls' = calls
       [] p.settled = "pending" ->
            \* the call stays suspended at await this.executeInVM(...)
            /\ FreeSlot # 0
            /\ calls' = [calls EXCEPT ![FreeSlot] =
                           [pc |-> "execute:await", functionName |-> functionName]]
            /\ host' = host /\ ret' = NoRet
       [] OTHER ->
            /\ host' = host /\ calls' = calls
            /\ ret' = executeFunctionReturn(functionName, originalCode, payload, p)

executeDeployed(functionName, deployedFunction, payload, headers) ==
  executeSettles(functionName, deployedFunction.originalCode, payload,
                 executeInVM(deployedFunction,
                             createMockRequest(functionName, payload, headers),
                             createMockResponse))

\* Faulty variant: an execution stamps the record it ran with the time
ExecuteStampsRecord(functionName, payload, headers) ==
  /\ host = "running"
  /\ MapHas(functions, functionName)
  /\ executeDeployed(functionName, MapGet(functions, functionName), payload, headers)
  /\ functions' = MapSet(functions, functionName,
                         [MapGet(functions, functionName) EXCEPT !.deployedAt = now])
  /\ UNCHANGED <<dirs, now, build, denoFunctions, denoFiles>>

\* executeFunction, lines 98-145, of a deployed function
Execute(functionName, payload, headers) ==
  /\ host = "running"
  /\ MapHas(functions, functionName)
  /\ executeDeployed(functionName, MapGet(functions, functionName), payload, headers)
  /\ UNCHANGED <<functions, dirs, now, build, denoFunctions, denoFiles>>

\* what a timer callback leaves behind: an exception it throws is uncaught
\* in the server process
timerOutcome(o) ==
  /\ Len(o.timers) <= MaxTimers
  /\ timers' = o.timers
  /\ processEnv' = o.env
  /\ host' = CASE o.kind = "throw" -> "crashed"
               [] o.kind = "spin" -> "blocked"
               [] OTHER -> host
  /\ ret' = IF o.kind = "throw"
            THEN [op |-> "uncaughtException", error |-> o.value]
            ELSE NoRet

\* the server's event loop runs the callback of a timer that a function
\* scheduled with the setTimeout given to it
TimerFires ==
  /\ host = "running"
  /\ timers # <<>>
  /\ timerOutcome(Exec(Head(timers), 1, Undefined, createMockResponse, Tail(timers),
                       FALSE, processEnv))
  /\ UNCHANGED <<functions, dirs, now, calls, build, denoFunctions, denoFiles>>

\* Faulty variant: every function is reported to have an import map
listFunctionsAnyImportMap ==
  [i \in 1..Len(functions) |->
     [name |-> functions[i].name, deployedAt |-> functions[i].deployedAt,
      status |-> functions[i].status,
      hasImportMap |-> TRUE,
      codeLength |-> Len(Chars(functions[i].originalCode)), runtime |-> "nodejs"]]

\* listFunctions, lines 150-159
listFunctions ==
  [i \in 1..Len(functions) |->
     [name |-> functions[i].name, deployedAt |-> functions[i].deployedAt,
      status |-> functions[i].status,
      hasImportMap |-> Len(functions[i].importMap) > 0,
      codeLength |-> Len(Chars(functions[i].originalCode)), runtime |-> "nodejs"]]

ListFunctions ==
  /\ host = "running"
  /\ ret' = [op |-> "listFunctions", value |-> listFunctions]
  /\ UNCHANGED <<functions, dirs, now, calls, host, build, timers, processEnv, denoFunctions, denoFiles>>

\* null, as getFunctionDetails returns it
Null == [t |-> "null"]

\* getFunctionDetails, lines 190-192: the record of the name, or null
getFunctionDetails(functionName) ==
  IF MapHas(functions, functionName) THEN MapGet(functions, functionName) ELSE Null

GetFunctionDetails(functionName) ==
  /\ host = "running"
  /\ ret' = [op |-> "getFunctionDetails", functionName |-> functionName,
             value |-> getFunctionDetails(functionName)]
  /\ UNCHANGED <<functions, dirs, now, calls, host, build, timers, processEnv, denoFunctions, denoFiles>>

\* removeFunction, lines 165-169: nothing to remove
RemoveMissing(functionName) ==
  /\ host = "running"
  /\ ~MapHas(functions, functionName)
  /\ ret' = [op |-> "removeFunction", settled |-> "resolved",
             functionName |-> functionName, value |-> FALSE, warned |-> FALSE]
  /\ UNCHANGED <<functions, dirs, now, calls, host, build, timers, processEnv, denoFunctions, denoFiles>>

\* removeFunction, lines 165-173: the record is found, the call awaits fs.rm
RemoveStart(c, functionName) ==
  /\ host = "running"
  /\ c = FreeSlot
  /\ MapHas(functions, functionName)
  /\ calls' = [calls EXCEPT ![c] =
                 [pc |-> "remove:rm", functionName |-> functionName,
                  directory |-> MapGet(functions, functionName).directory]]
  /\ ret' = NoRet
  /\ UNCHANGED <<functions, dirs, now, host, build, timers, processEnv, denoFunctions, denoFiles>>

\* removeFunction, lines 173-178: the directory is removed, then the record
RemoveFinish(c) ==
  /\ host = "running"
  /\ calls[c].pc = "remove:rm"
  /\ dirs' = dirs \ {calls[c].directory}
  /\ functions' = MapDelete(functions, calls[c].functionName)
  /\ calls' = [calls EXCEPT ![c] = Idle]
  /\ ret' = [op |-> "removeFunction", settled |-> "resolved",
             functionName |-> calls[c].functionName, value |-> TRUE, warned |-> FALSE]
  /\ UNCHANGED <<now, host, build, timers, processEnv, denoFunctions, denoFiles>>

\* Faulty variant: a failed cleanup gives the removal up
RemoveCleanupFailsGivesUp(c) ==
  /\ host = "running"
  /\ calls[c].pc = "remove:rm"
  /\ calls' = [calls EXCEPT ![c] = Idle]
  /\ ret' = [op |-> "removeFunction", settled |-> "resolved",
             functionName |-> calls[c].functionName, value |-> FALSE, warned |-> TRUE]
  /\ UNCHANGED <<functions, dirs, now, host, build, timers, processEnv, denoFunctions, denoFiles>>

\* removeFunction, lines 179-184: fs.rm rejects, console.warn reports it and
\* the record is removed anyway
RemoveCleanupFails(c) ==
  /\ host = "running"
  /\ calls[c].pc = "remove:rm"
  /\ functions' = MapDelete(functions, calls[c].functionName)
  /\ calls' = [calls EXCEPT ![c] = Idle]
  /\ ret' = [op |-> "removeFunction", settled |-> "resolved",
             functionName |-> calls[c].functionName, value |-> TRUE, warned |-> TRUE]
  /\ UNCHANGED <<dirs, now, host, build, timers, processEnv, denoFunctions, denoFiles>>

\* the clock advances
Tick ==
  /\ host = "running"
  /\ now < MaxClock
  /\ now' = now + 1
  /\ ret' = NoRet
  /\ UNCHANGED <<functions, dirs, calls, host, build, timers, processEnv, denoFunctions, denoFiles>>

\* ------------------------------------------------------------------------
\* The Deno handler (ServerlessFunctionHandler, serverless-handler.ts): its
\* own registry, and the files it writes under its own directory
\*   denoFunctions  the registry (this.functions)
\*   denoFiles      the files under tempDir: directory, file name, and the
\*                  source (index.ts) or the map (import-map.json) written
\* ------------------------------------------------------------------------
DenoMaxCodeLength == 50000

\* /^[a-z0-9-]+$/.test(name) && name.length >= 1 && name.length <= 50
denoIsValidFunctionName(name) ==
  LET c == Chars(name) IN
  /\ c # <<>> /\ \A i \in 1..Len(c) : c[i] \in LowerCase \cup Digit \cup {"-"}
  /\ Len(c) >= 1
  /\ Len(c) <= MaxNameLength

\* the message validateFunctionCode throws, <<>> when it returns
denoValidateFunctionCode(code) ==
  LET c == Chars(code) IN
  IF Trim(c) = <<>> THEN Chars("Function code cannot be empty")
  ELSE IF Len(c) > DenoMaxCodeLength THEN Chars("Function code too large (max 50KB)")
  ELSE <<>>

\* the text written to index.ts: the Deno template with the source set in
\* it; the import map is not part of the text
denoWrapFunctionCode(functionCode, importMap) ==
  [template |-> "deno", functionCode |-> functionCode]

\* fs.writeFile: the file is created, or its content replaced
writeFile(files, directory, file, source, json) ==
  {f \in files : ~(f.directory = directory /\ f.file = file)}
    \cup {[directory |-> directory, file |-> file, source |-> source, json |-> json]}

denoDeployFailure(functionName, functionCode, message) ==
  [op |-> "deno.deployFunction", settled |-> "resolved", success |-> FALSE,
   functionName |-> functionName, functionCode |-> functionCode, error |-> message]

\* deployFunction, lines 41-48: the name or the code is refused
DenoDeployInvalid(functionName, functionCode, importMap) ==
  /\ host = "running"
  /\ ~denoIsValidFunctionName(functionName)
       \/ denoValidateFunctionCode(functionCode) # <<>>
  /\ ret' = denoDeployFailure(functionName, functionCode,
              IF ~denoIsValidFunctionName(functionName)
              THEN Chars("Invalid function name. Use only letters, numbers, and hyphens.")
              ELSE denoValidateFunctionCode(functionCode))
  /\ UNCHANGED <<functions, dirs, now, calls, host, build, timers, processEnv,
                 denoFunctions, denoFiles>>

\* deployFunction, lines 51-52: fs.mkdir rejects, the catch block returns
\* the failure
DenoDeployMkdirFails(functionName, functionCode, importMap) ==
  /\ host = "running"
  /\ denoIsValidFunctionName(functionName)
  /\ denoValidateFunctionCode(functionCode) = <<>>
  /\ ret' = denoDeployFailure(functionName, functionCode,
                              Chars("ENOSPC: no space left on device, mkdir"))
  /\ UNCHANGED <<functions, dirs, now, calls, host, build, timers, processEnv,
                 denoFunctions, denoFiles>>

\* the files of the function directory after a deploy: index.ts always,
\* import-map.json only for a map with a key
denoWriteFiles(files, functionName, functionCode, importMap) ==
  IF Len(importMap) > 0
  THEN writeFile(writeFile(files, functionName, "index.ts",
                           denoWrapFunctionCode(functionCode, importMap), <<>>),
                 functionName, "import-map.json", "", importMap)
  ELSE writeFile(files, functionName, "index.ts",
                 denoWrapFunctionCode(functionCode, importMap), <<>>)

\* deployFunction, lines 41-80: the files are written and the record stored
DenoDeploy(functionName, functionCode, importMap) ==
  /\ host = "running"
  /\ denoIsValidFunctionName(functionName)
  /\ denoValidateFunctionCode(functionCode) = <<>>
  /\ denoFiles' = denoWriteFiles(denoFiles, functionName, functionCode, importMap)
  /\ denoFunctions' = MapSet(denoFunctions, functionName,
       [name |-> functionName, code |-> functionCode, importMap |-> importMap,
        deployedAt |-> now, filePath |-> <<functionName, "index.ts">>,
        directory |-> functionName, status |-> "deployed"])
  /\ ret' = [op |-> "deno.deployFunction", settled |-> "resolved",
             success |-> TRUE, functionName |-> functionName,
             functionCode |-> functionCode, deployedAt |-> now,
             functionUrl |-> Chars("/functions/v1/") \o Chars(functionName),
             executionRuntime |-> "deno"]
  /\ UNCHANGED <<functions, dirs, now, calls, host, build, timers, processEnv>>

\* deployFunction, lines 55-62 and 86-92: index.ts is written, then the
\* write of import-map.json rejects and the catch block returns the failure
DenoDeployWriteFails(functionName, functionCode, importMap) ==
  /\ host = "running"
  /\ denoIsValidFunctionName(functionName)
  /\ denoValidateFunctionCode(functionCode) = <<>>
  /\ Len(importMap) > 0
  /\ denoFiles' = writeFile(denoFiles, functionName, "index.ts",
                            denoWrapFunctionCode(functionCode, importMap), <<>>)
  /\ ret' = denoDeployFailure(functionName, functionCode,
                              Chars("ENOSPC: no space left on device, write"))
  /\ UNCHANGED <<functions, dirs, now, calls, host, build, timers, processEnv,
                 denoFunctions>>

\* existsSync
existsSync(files, directory, file) ==
  \E f \in files : f.directory = directory /\ f.file = file

readFile(files, directory, file) ==
  CHOOSE f \in files : f.directory = directory /\ f.file = file

\* executeWithDeno, lines 198-220: deno runs the file at func.filePath, with
\* the import-map.json of the directory when there is one
executeWithDeno(func) ==
  [source |-> readFile(denoFiles, func.filePath[1], func.filePath[2]).source,
   importMapFile |-> existsSync(denoFiles, func.directory, "import-map.json"),
   importMap |-> IF existsSync(denoFiles, func.directory, "import-map.json")
                 THEN readFile(denoFiles, func.directory, "import-map.json").json
                 ELSE <<>>]

\* executeFunction, lines 98-112: the name is not in the registry
DenoExecuteNotFound(functionName) ==
  /\ host = "running"
  /\ ~MapHas(denoFunctions, functionName)
  /\ ret' = [op |-> "deno.executeFunction", settled |-> "resolved", success |-> FALSE,
             functionName |-> functionName,
             error |-> Chars("Function '") \o Chars(functionName)
                       \o Chars("' not found. Deploy it first using deployFunction()."),
             availableFunctions |-> MapKeys(denoFunctions), ran |-> FALSE]
  /\ UNCHANGED <<functions, dirs, now, calls, host, build, timers, processEnv,
                 denoFunctions, denoFiles>>

\* executeFunction, lines 114-127, of a deployed function: the Deno process
\* is started on the files of the function directory
DenoExecute(functionName) ==
  /\ host = "running"
  /\ MapHas(denoFunctions, functionName)
  /\ ret' = [op |-> "deno.executeFunction", functionName |-> functionName,
             ran |-> TRUE, runtime |-> "deno",
             runs |-> executeWithDeno(MapGet(denoFunctions, functionName))]
  /\ UNCHANGED <<functions, dirs, now, calls, host, build, timers, processEnv,
                 denoFunctions, denoFiles>>

\* removeFunction, lines 165-186: the directory is removed with its files,
\* then the record
DenoRemove(functionName) ==
  /\ host = "running"
  /\ MapHas(denoFunctions, functionName)
  /\ denoFiles' = {f \in denoFiles :
                     f.directory # MapGet(denoFunctions, functionName).directory}
  /\ denoFunctions' = MapDelete(denoFunctions, functionName)
  /\ ret' = [op |-> "deno.removeFunction", settled |-> "resolved",
             functionName |-> functionName, value |-> TRUE]
  /\ UNCHANGED <<functions, dirs, now, calls, host, build, timers, processEnv>>

NextDeno(names, codes, importMaps) ==
  \/ \E n \in names, code \in codes, im \in importMaps : DenoDeployInvalid(n, code, im)
  \/ \E n \in names, code \in codes, im \in importMaps : DenoDeployMkdirFails(n, code, im)
  \/ \E n \in names, code \in codes, im \in importMaps : DenoDeploy(n, code, im)

NextOver(names, codes, importMaps, payloads, slots) ==
  \/ \E n \in names, code \in codes, im \in importMaps : DeployInvalid(n, code, im)
  \/ \E c \in slots, n \in names, code \in codes, im \in importMaps :
       DeployStart(c, n, code, im)
  \/ \E c \in slots : DeployMkdirFails(c)
  \/ \E c \in slots : DeployFinish(c)
  \/ \E n \in names, p \in payloads, h \in HeaderSets : ExecuteNotFound(n, p, h)
  \/ \E n \in names, p \in payloads, h \in HeaderSets : Execute(n, p, h)
  \/ ListFunctions
  \/ \E n \in names : RemoveMissing(n)
  \/ \E c \in slots, n \in names : RemoveStart(c, n)
  \/ \E c \in slots : RemoveFinish(c)
  \/ \E c \in slots : RemoveCleanupFails(c)
  \/ Tick

\* Concurrent calls on one function name: up to MaxCalls calls are suspended
\* at their await while others run
Next ==
  NextOver({"f", "Has_Upper"}, {SrcAdd, SrcAddBody, SrcGreetBrace, SrcBlank},
           {<<>>}, {PayloadAB}, Slots)

Spec == InitCommonJS /\ [][Next]_vars

\* Every name, one call at a time
NextNames ==
  NextOver(AllNames, {SrcAdd, SrcAddBody, SrcEmpty}, {<<>>}, {PayloadAB}, OneSlot)

SpecNames == InitCommonJS /\ [][NextNames]_vars

\* Every source and payload on one name, one call at a time
NextExec == NextOver({"f"}, AllCodes, {<<>>}, Payloads, OneSlot)

SpecExec == InitCommonJS /\ [][NextExec]_vars

\* The sources that reach the server outside the handler (require, timers,
\* loops, the realm of the context values), in either build, with the
\* server's event loop
HostCodes ==
  {SrcRequireFs, SrcRequireCrypto, SrcEscape, SrcLoop, SrcLoopAfterAwait,
   SrcTimerThrow, SrcBlank}

NextHost ==
  \/ NextOver({"f"}, HostCodes, {<<>>}, {PayloadAB}, OneSlot)
  \/ TimerFires

SpecHost == Init /\ [][NextHost]_vars

\* ------------------------------------------------------------------------
\* The tool server: the tools it lists, and the dispatch of a call by name
\* ------------------------------------------------------------------------
\* String.prototype.startsWith
startsWith(s, prefix) ==
  Len(prefix) <= Len(s) /\ SubSeq(s, 1, Len(prefix)) = prefix

\* Array.prototype.includes
ArrayIncludes(a, x) == \E i \in 1..Len(a) : a[i] = x

\* the outcome of a tool call: the case of the handler that ran, or the
\* error thrown
Handled(handler, name) ==
  [kind |-> "handled", handler |-> handler, case |-> name, error |-> "",
   code |-> "", message |-> <<>>]
ThrowError(message) ==
  [kind |-> "throw", handler |-> "", case |-> "", error |-> "Error",
   code |-> "", message |-> message]
McpError(code, message) ==
  [kind |-> "throw", handler |-> "", case |-> "", error |-> "McpError",
   code |-> code, message |-> message]

\* switch (name) of a handler: its cases, and the message of its default
switchName(name, cases, handler, unknown) ==
  IF ArrayIncludes(cases, name) THEN Handled(handler, name)
  ELSE ThrowError(Chars(unknown) \o Chars(name))

getConnectionTools == <<"connection_test">>

getAuthTools == <<"auth_login", "auth_signup", "auth_get_user", "auth_logout">>

getSchemaTools == <<"schema_get_tables", "schema_get_columns", "schema_get_relations">>

getDatabaseTools == <<"db_select", "db_insert", "db_update", "db_delete", "db_upsert", "db_count">>

getRealtimeTools == <<"realtime_subscribe", "realtime_channel_create", "realtime_broadcast">>

getStorageTools == <<"storage_list_buckets", "storage_create_bucket", "storage_delete_bucket", "storage_list_files", "storage_upload_file", "storage_download_file", "storage_delete_file", "storage_get_public_url">>

getSqlTools == <<"sql_execute", "sql_call_rpc", "sql_aggregate">>

getEnhancedSqlTools == <<"sql_aggregate_enhanced", "sql_execute_raw", "sql_analyze_table">>

getEdgeFunctionTools == <<"edge_invoke_function", "edge_list_functions", "edge_deploy_function", "edge_remove_function">>

getSecurityTools == <<"security_enable_rls", "security_disable_rls", "security_create_policy", "security_drop_policy", "security_list_policies", "security_check_rls_status", "security_test_policy">>


handleConnectionTool(name) ==
  switchName(name, getConnectionTools, "handleConnectionTool", "Unknown connection tool: ")

handleAuthTool(name) ==
  switchName(name, getAuthTools, "handleAuthTool", "Unknown auth tool: ")

handleSchemaTool(name) ==
  switchName(name, getSchemaTools, "handleSchemaTool", "Unknown schema tool: ")

handleDatabaseTool(name) ==
  switchName(name, getDatabaseTools, "handleDatabaseTool", "Unknown database tool: ")

handleRealtimeTool(name) ==
  switchName(name, getRealtimeTools, "handleRealtimeTool", "Unknown realtime tool: ")

handleStorageTool(name) ==
  switchName(name, getStorageTools, "handleStorageTool", "Unknown storage tool: ")

handleEnhancedSqlTool(name) ==
  switchName(name, getEnhancedSqlTools, "handleEnhancedSqlTool", "Unknown enhanced SQL tool: ")

handleEdgeFunctionTool(name) ==
  switchName(name, getEdgeFunctionTools, "handleEdgeFunctionTool", "Unknown edge function tool: ")

handleSecurityTool(name) ==
  switchName(name, getSecurityTools, "handleSecurityTool", "Unknown security tool: ")

enhancedToolNames == <<"sql_aggregate_enhanced", "sql_execute_raw", "sql_analyze_table">>

\* Faulty variant: the enhanced tools are not passed on
handleSqlToolOwnCasesOnly(name) ==
  switchName(name, getSqlTools, "handleSqlTool", "Unknown SQL tool: ")

\* handleSqlTool: the enhanced tools are passed on to their handler
handleSqlTool(name) ==
  IF ArrayIncludes(enhancedToolNames, name) THEN handleEnhancedSqlTool(name)
  ELSE switchName(name, getSqlTools, "handleSqlTool", "Unknown SQL tool: ")

\* the list-tools handler
listTools ==
  getConnectionTools \o getAuthTools \o getSchemaTools \o getDatabaseTools
    \o getRealtimeTools \o getStorageTools \o getSqlTools \o getEnhancedSqlTools
    \o getEdgeFunctionTools \o getSecurityTools

\* the call-tool handler: switch (true) over the prefix of the name
dispatch(name) ==
  LET n == Chars(name) IN
  CASE startsWith(n, Chars("connection_")) -> handleConnectionTool(name)
    [] startsWith(n, Chars("auth_")) -> handleAuthTool(name)
    [] startsWith(n, Chars("schema_")) -> handleSchemaTool(name)
    [] startsWith(n, Chars("db_")) -> handleDatabaseTool(name)
    [] startsWith(n, Chars("realtime_")) -> handleRealtimeTool(name)
    [] startsWith(n, Chars("storage_")) -> handleStorageTool(name)
    [] startsWith(n, Chars("sql_")) -> handleSqlTool(name)
    [] startsWith(n, Chars("edge_")) -> handleEdgeFunctionTool(name)
    [] startsWith(n, Chars("security_")) -> handleSecurityTool(name)
    [] OTHER -> McpError("MethodNotFound", Chars("Unknown tool: ") \o n)

\* the catch block: an McpError is thrown on, any other error is wrapped
callToolCatch(r) ==
  IF r.kind = "throw" /\ r.error # "McpError"
  THEN McpError("InternalError", Chars("Tool execution failed: ") \o r.message)
  ELSE r

callTool(name) == callToolCatch(dispatch(name))

ListTools ==
  /\ host = "running"
  /\ ret' = [op |-> "listTools", tools |-> listTools]
  /\ UNCHANGED <<functions, dirs, now, calls, host, build, timers, processEnv,
                 denoFunctions, denoFiles>>

CallTool(name) ==
  /\ host = "running"
  /\ ret' = [op |-> "callTool", name |-> name, result |-> callTool(name)]
  /\ UNCHANGED <<functions, dirs, now, calls, host, build, timers, processEnv,
                 denoFunctions, denoFiles>>

\* ------------------------------------------------------------------------
\* edge_invoke_function: the local handler first, then the remote backend
\* ------------------------------------------------------------------------
\* what client.functions.invoke resolves to: data, or an error
RemoteData(data) == [kind |-> "data", data |-> data]
RemoteError(message) == [kind |-> "error", message |-> message]

\* the reply of the tool, for the result localExecution of the handler and
\* the answer remote of the backend, which is asked (invoked = 1) only on
\* the path that reaches client.functions.invoke
edgeInvokeReply(function_name, localExecution, remote) ==
  IF localExecution.settled = "rejected"
  THEN \* await nodeJSHandler.executeFunction(...) throws: the catch block
       [op |-> "edge_invoke_function", function |-> function_name,
        local |-> localExecution, invoked |-> 0,
        reply |-> [success |-> FALSE, error |-> localExecution.reason]]
  ELSE IF localExecution.success
  THEN [op |-> "edge_invoke_function", function |-> function_name,
        local |-> localExecution, invoked |-> 0,
        reply |-> [success |-> TRUE, data |-> localExecution.data,
                   handler_type |-> "nodejs_serverless"]]
  ELSE IF remote.kind = "error"
  THEN [op |-> "edge_invoke_function", function |-> function_name,
        local |-> localExecution, invoked |-> 1, remote |-> remote,
        reply |-> [success |-> FALSE, local_error |-> localExecution.error,
                   supabase_error |-> remote.message,
                   available_local_functions |->
                     IF localExecution.ran THEN <<>>
                     ELSE localExecution.availableFunctions]]
  ELSE [op |-> "edge_invoke_function", function |-> function_name,
        local |-> localExecution, invoked |-> 1, remote |-> remote,
        reply |-> [success |-> TRUE, data |-> remote.data]]

\* what the call leaves behind once the run p of the local execution is
\* over
edgeInvokeSettles(function_name, originalCode, payload, remote, p) ==
  /\ Len(p.timers) <= MaxTimers
  /\ timers' = p.timers
  /\ processEnv' = p.env
  /\ CASE p.settled = "never" ->
            host' = "blocked" /\ ret' = NoRet /\ calls' = calls
       [] p.settled = "pending" ->
            /\ FreeSlot # 0
            /\ calls' = [calls EXCEPT ![FreeSlot] =
                           [pc |-> "execute:await", functionName |-> function_name]]
            /\ host' = host /\ ret' = NoRet
       [] OTHER ->
            /\ host' = host /\ calls' = calls
            /\ ret' = edgeInvokeReply(function_name,
                        executeFunctionReturn(function_name, originalCode, payload, p),
                        remote)

\* case 'edge_invoke_function', lines 93-217
EdgeInvokeFunction(function_name, payload, headers, remote) ==
  /\ host = "running"
  /\ IF MapHas(functions, function_name)
     THEN edgeInvokeSettles(function_name,
                            MapGet(functions, function_name).originalCode, payload, remote,
                            executeInVM(MapGet(functions, function_name),
                                        createMockRequest(function_name, payload, headers),
                                        createMockResponse))
     ELSE /\ ret' = edgeInvokeReply(function_name,
                                    executeFunctionNotFound(function_name), remote)
          /\ UNCHANGED <<calls, host, timers, processEnv>>
  /\ UNCHANGED <<functions, dirs, now, build, denoFunctions, denoFiles>>

\* names no tool has
UnknownTools == {"unknown_tool", "sql_drop", "edge_"}

ToolNames == {listTools[i] : i \in 1..Len(listTools)} \cup UnknownTools

\* The tool server over the handler: tools are listed and called by name
\* between the calls on the handler
NextTools ==
  \/ ListTools
  \/ \E name \in ToolNames : CallTool(name)
  \/ NextOver({"f"}, {SrcAdd, SrcBlank}, {<<>>}, {PayloadAB}, OneSlot)

SpecTools == InitCommonJS /\ [][NextTools]_vars

\* Two names, with and without an import map, one call at a time
ListNames == {"f", "g"}
\* a source without an import map, a longer one with, and a refused one
ListDeploys ==
  {<<SrcAdd, <<>> >>,
   <<SrcGreetOneLine, << <<"lodash", Str(Chars("npm:lodash"))>> >> >>,
   <<SrcBlank, <<>> >>}

NextList ==
  \/ \E n \in ListNames, d \in ListDeploys : DeployInvalid(n, d[1], d[2])
  \/ \E n \in ListNames, d \in ListDeploys : DeployStart(1, n, d[1], d[2])
  \/ DeployMkdirFails(1)
  \/ DeployFinish(1)
  \/ ListFunctions
  \/ \E n \in ListNames : RemoveMissing(n)
  \/ \E n \in ListNames : RemoveStart(1, n)
  \/ RemoveFinish(1)
  \/ RemoveCleanupFails(1)
  \/ Tick

SpecList == InitCommonJS /\ [][NextList]_vars

\* Calls that stay suspended, while the clock keeps advancing: time passes
\* whatever the calls do
NextPending ==
  NextOver({"f"}, {SrcNeverSettles, SrcAdd, SrcBlank}, {<<>>}, {PayloadAB}, Slots)

SpecPending == InitCommonJS /\ [][NextPending]_vars /\ WF_vars(Tick)

\* Every operation of the handler, getFunctionDetails included, on two
\* names, with functions that return and that throw, as the clock advances
FrameNames == {"f", "g"}

NextFrame ==
  \/ NextOver(FrameNames, {SrcAdd, SrcThrow, SrcBlank}, {<<>>}, {PayloadAB}, OneSlot)
  \/ \E n \in FrameNames : GetFunctionDetails(n)

SpecFrame == InitCommonJS /\ [][NextFrame]_vars

\* The Deno handler: deploys with and without an import map, deploys that
\* fail part-way, executions and removals, as the clock advances
DenoCodes == {SrcAdd, SrcAddBody, SrcBlank}

NextDenoRun ==
  \/ NextDeno({"f"}, DenoCodes, ImportMaps)
  \/ \E code \in DenoCodes, im \in ImportMaps : DenoDeployWriteFails("f", code, im)
  \/ DenoExecuteNotFound("f")
  \/ DenoExecute("f")
  \/ DenoRemove("f")
  \/ Tick

SpecDeno == InitCommonJS /\ [][NextDenoRun]_vars

\* edge_invoke_function over the handler, on functions that return, that
\* throw, and whose failure leaves executeFunction, with a backend that
\* answers with data or with an error
Remotes == {RemoteData(Str(Chars("remote"))), RemoteError(Chars("Function not found"))}

NextEdge ==
  \/ NextOver({"f"}, {SrcAdd, SrcThrow, SrcHostile, SrcBlank}, {<<>>}, {PayloadAB}, OneSlot)
  \/ \E remote \in Remotes : EdgeInvokeFunction("f", PayloadAB, <<>>, remote)

SpecEdge == InitCommonJS /\ [][NextEdge]_vars

\* Functions that write and read what the execution context shares with the
\* server, on two names, one call at a time
NextShared ==
  NextOver({"f", "g"}, {SrcEnvWrite, SrcEnvRead, SrcBlank}, {<<>>}, {PayloadAB}, OneSlot)

SpecShared == InitCommonJS /\ [][NextShared]_vars

\* The size limits of the two handlers: sources at and around each limit,
\* deployed to either handler
SizeCodes == {Src50000, Src50001, Src100000, Src100001, SrcBlank}

NextSize ==
  \/ \E code \in SizeCodes : DeployInvalid("f", code, <<>>)
  \/ \E code \in SizeCodes : DeployStart(1, "f", code, <<>>)
  \/ DeployMkdirFails(1)
  \/ DeployFinish(1)
  \/ NextDeno({"f"}, SizeCodes, {<<>>})

SpecSize == InitCommonJS /\ [][NextSize]_vars

\* ------------------------------------------------------------------------
\* Claims
\* ------------------------------------------------------------------------
RegistryNames == {functions[i].name : i \in 1..Len(functions)}

\* equality of two JavaScript values
SameValue(x, y) == x.t = y.t /\ x = y

\* C1: the registry holds at most one record per function name, and after a
\* successful deployFunction(name, code) exactly one entry has that name and
\* its stored original source is the code just submitted, whatever was
\* deployed under the name before.
C1_OneRecordPerName ==
  /\ \A i, j \in 1..Len(functions) : functions[i].name = functions[j].name => i = j
  /\ (ret.op = "deployFunction" /\ ret.success) =>
       /\ Cardinality({i \in 1..Len(functions) : functions[i].name = ret.functionName}) = 1
       /\ \A i \in 1..Len(functions) :
            functions[i].name = ret.functionName
              => functions[i].originalCode = ret.functionCode

\* A redeploy has just returned: the name redeployed at time 1 keeps the first
\* place of the registry, which it took before the second entry was stored at
\* time 0, and holds the newly submitted source.
C1_Witness ==
  /\ ret.op = "deployFunction" /\ ret.success /\ ret.functionCode = SrcAddBody
  /\ Len(functions) = 2
  /\ functions[1].name = ret.functionName
  /\ functions[1].originalCode = SrcAddBody
  /\ functions[1].deployedAt = 1
  /\ functions[2].deployedAt = 0

\* C2: deployFunction returns success:false with an error message and stores
\* nothing for the names "Has_Upper", "" and the 51-character name, which do
\* not match ^[a-z0-9-]{1,50}$; "valid-name-1" and the 50-character name are
\* never refused with the name error.
C2_NameValidation ==
  /\ RegistryNames \cap {"Has_Upper", "", Name51} = {}
  /\ (ret.op = "deployFunction" /\ ret.functionName \in {"Has_Upper", "", Name51}) =>
       /\ ret.settled = "resolved" /\ ~ret.success /\ ret.error # <<>>
  /\ (ret.op = "deployFunction" /\ ret.functionName \in {"valid-name-1", Name50}
        /\ ~ret.success) =>
       ret.error # Chars("Invalid function name. Use only letters, numbers, and hyphens.")

\* The 51-character name has just been refused while another function is
\* deployed.
C2_Witness ==
  /\ ret.op = "deployFunction" /\ ret.functionName = Name51 /\ ~ret.success
  /\ ret.functionCode = SrcAdd
  /\ Len(functions) = 1

\* C3: a failed deployFunction call leaves the registry as it was: the step
\* that returns the failure changes no entry, and the registry changes only
\* in the step that returns a successful deployFunction or a removeFunction.
C3_FailedDeployKeepsRegistry ==
  [][/\ (ret'.op = "deployFunction" /\ ~ret'.success) => functions' = functions
     /\ functions' # functions =>
          \/ ret'.op = "deployFunction" /\ ret'.success
          \/ ret'.op = "removeFunction" /\ ret'.value]_vars

\* A deployFunction over a deployed name has failed after validation (its
\* wrapper does not compile) and the entry still holds the previous source.
C3_Witness ==
  /\ ret.op = "deployFunction" /\ ~ret.success /\ ret.functionName = "f"
  /\ ret.functionCode = SrcGreetBrace
  /\ MapHas(functions, "f")
  /\ MapGet(functions, "f").originalCode = SrcAdd
  /\ MapGet(functions, "f").deployedAt = 0
  /\ now = 1

\* C4: executeFunction on a name that is not in the registry runs no code and
\* returns success:false with an error that contains the name and
\* availableFunctions equal to the names in the registry.
C4_NotFound ==
  (ret.op = "executeFunction" /\ ~MapHas(functions, ret.functionName)) =>
    /\ ~ret.ran
    /\ ret.settled = "resolved" /\ ~ret.success
    /\ Includes(ret.error, Chars(ret.functionName))
    /\ Len(ret.availableFunctions) = Len(functions)
    /\ {ret.availableFunctions[i] : i \in 1..Len(ret.availableFunctions)} = RegistryNames

\* A not-found result that lists a deployed function.
C4_Witness ==
  /\ ret.op = "executeFunction" /\ ~ret.ran
  /\ ret.functionName = Name50
  /\ ret.availableFunctions = <<"valid-name-1">>

\* C5: removeFunction(x) returns false exactly when x is not deployed at the
\* call; a removeFunction(x) called on a deployed x returns true and x is then
\* absent; an absent x becomes present only in the step that returns a
\* successful deployFunction(x); executeFunction on an absent x fails with the
\* not-found result.
C5_Lifecycle ==
  [][/\ (ret'.op = "removeFunction" /\ ~ret'.value) =>
          ~MapHas(functions, ret'.functionName) /\ calls' = calls
     /\ \A c \in Slots :
          (calls'[c].pc = "remove:rm" /\ calls[c].pc # "remove:rm") =>
            MapHas(functions, calls'[c].functionName)
     /\ (ret'.op = "removeFunction" /\ ret'.value) =>
          /\ \E c \in Slots : /\ calls[c].pc = "remove:rm"
                              /\ calls[c].functionName = ret'.functionName
                              /\ calls'[c] = Idle
          /\ ~MapHas(functions', ret'.functionName)
     /\ \A x \in AllNames \cup {"f"} :
          (~MapHas(functions, x) /\ MapHas(functions', x)) =>
            ret'.op = "deployFunction" /\ ret'.success /\ ret'.functionName = x
     /\ (ret'.op = "executeFunction" /\ ~MapHas(functions, ret'.functionName)) =>
          /\ ~ret'.success /\ ~ret'.ran
          /\ ret'.error = Chars("Function '") \o Chars(ret'.functionName)
                            \o Chars("' not found. Deploy it first using deployFunction().")]_vars

\* removeFunction has just returned true for a function deployed before.
C5_Witness ==
  /\ ret.op = "removeFunction" /\ ret.value /\ ret.functionName = "f"
  /\ ~MapHas(functions, "f")
  /\ "f" \notin dirs

\* C6: when the cleanup of the function directory fails, removeFunction still
\* removes the entry and returns true; the failure is only logged.
C6_CleanupFailure ==
  (ret.op = "removeFunction" /\ ret.warned) =>
    /\ ret.settled = "resolved"
    /\ ret.value
    /\ ~MapHas(functions, ret.functionName)

\* The cleanup has just failed: the directory is still there, the entry is not.
C6_Witness ==
  /\ ret.op = "removeFunction" /\ ret.warned /\ ret.functionName = "f"
  /\ "f" \in dirs
  /\ functions = <<>>

\* C7: deployFunction and executeFunction never reject: every failure is a
\* returned result with success:false and an error message.
C7_NeverThrows ==
  ret.op \in {"deployFunction", "executeFunction"} =>
    /\ ret.settled = "resolved"
    /\ ~ret.success => ret.error # <<>>

\* C8 as stated: SrcAdd, which reads req.a and req.b, executed with {a:2,b:3}
\* returns success with data == 5.
C8_FieldsOnArgument ==
  (ret.op = "executeFunction" /\ ret.ran /\ ret.script = SrcAdd /\ ret.payload = PayloadAB) =>
    /\ ret.settled = "resolved" /\ ret.success
    /\ ret.data.t = "num" /\ ret.data.v = 5

\* C8 amended: the bare-name entry point is called with the request view,
\* whose body is the payload: SrcAddBody, which reads req.body.a and
\* req.body.b, returns success with data == 5 for {a:2,b:3}, and SrcAdd
\* returns success with data NaN.
C8_FieldsOnBody ==
  /\ (ret.op = "executeFunction" /\ ret.ran /\ ret.script = SrcAddBody
        /\ ret.payload = PayloadAB) =>
       /\ ret.settled = "resolved" /\ ret.success
       /\ ret.data.t = "num" /\ ret.data.v = 5
  /\ (ret.op = "executeFunction" /\ ret.ran /\ ret.script = SrcAdd
        /\ ret.payload = PayloadAB) =>
       /\ ret.settled = "resolved" /\ ret.success
       /\ ret.data.t = "nan"

\* SrcAddBody has just been executed with {a:2,b:3}.
C8_Witness ==
  /\ ret.op = "executeFunction" /\ ret.ran /\ ret.script = SrcAddBody
  /\ ret.payload = PayloadAB /\ ret.success

\* C9: each of the three layouts of the default-export source deploys (unless
\* the file system fails) and, executed with {name:"Ada"}, returns success
\* with data {greeting:"hi Ada"}.
GreetSources == {SrcGreetOneLine, SrcGreetBrace, SrcGreetSemi}

C9_ExportStyle ==
  /\ (ret.op = "deployFunction" /\ ret.functionCode \in GreetSources /\ ~ret.success) =>
       ret.error = Chars("ENOSPC: no space left on device, mkdir")
  /\ (ret.op = "executeFunction" /\ ret.ran /\ ret.script \in GreetSources
        /\ ret.payload = PayloadAda) =>
       /\ ret.settled = "resolved" /\ ret.success
       /\ SameValue(ret.data,
                    Obj(<< <<"greeting", Str(Chars("hi ") \o Chars("Ada"))>> >>))

ShapeA(r) ==
  /\ r.t = "obj"
  /\ \E i \in 1..Len(r.v) : r.v[i][1] = "body"
  /\ \E i \in 1..Len(r.v) : r.v[i][1] = "status"

\* C11: every successful executeFunction result is the canonical triple of
\* the function's result shape: data, status code and headers are the
\* Shape-A body, status and headers, or the builder's written value, status
\* and headers, or the raw return value with 200 and no headers.
C11_CanonicalTriple ==
  (ret.op = "executeFunction" /\ ret.ran /\ ret.settled = "resolved" /\ ret.success) =>
    IF ShapeA(ret.returned)
    THEN /\ SameValue(ret.data, Get(ret.returned, "body"))
         /\ SameValue(Num(ret.statusCode), Get(ret.returned, "status"))
         /\ SameValue(ret.headers, IF Truthy(Get(ret.returned, "headers"))
                                   THEN Get(ret.returned, "headers") ELSE Obj(<<>>))
    ELSE IF ret.builder.responseData.t # "undefined"
    THEN /\ SameValue(ret.data, ret.builder.responseData)
         /\ ret.statusCode = ret.builder.statusCode
         /\ SameValue(ret.headers, Obj(ret.builder.responseHeaders))
    ELSE /\ SameValue(ret.data, ret.returned)
         /\ ret.statusCode = 200
         /\ SameValue(ret.headers, Obj(<<>>))

\* C12: a function that requires a module outside crypto, util, url and
\* querystring fails with success:false and an error that names the module;
\* a function that requires one of the four succeeds.
C12_AllowList ==
  /\ (ret.op = "executeFunction" /\ ret.ran /\ ret.script = SrcRequireFs) =>
       /\ ret.settled = "resolved" /\ ~ret.success
       /\ Includes(ret.error, Chars("Module '") \o Chars("fs"))
  /\ (ret.op = "executeFunction" /\ ret.ran /\ ret.script = SrcRequireCrypto) =>
       /\ ret.settled = "resolved" /\ ret.success

\* C13: the scope given to a submitted function exposes no process-control
\* primitive of the server: a function that looks for the server's
\* process.exit through the values of its scope finds no function.
C13_NoProcessControl ==
  (ret.op = "executeFunction" /\ ret.ran /\ ret.script = SrcEscape) =>
    /\ ret.settled = "resolved"
    /\ ret.success => ~SameValue(ret.data, Str(Chars("function")))

\* C14: a function that loops without end is aborted, in the synchronous
\* part of its entry point or after an await: no execution keeps the
\* server's thread, and executeFunction returns success:false with the
\* timeout error.
C14_Timeout ==
  /\ host # "blocked"
  /\ (ret.op = "executeFunction" /\ ret.ran
        /\ ret.script \in {SrcLoop, SrcLoopAfterAwait}) =>
       /\ ret.settled = "resolved" /\ ~ret.success
       /\ ret.error = Chars("Script execution timed out after 30000ms")

\* C15: no exception raised by a submitted function, in its run or in a
\* timer callback that fires after executeFunction has returned, becomes an
\* uncaught exception of the server process.
C15_NoUnhandledFault ==
  /\ host # "crashed"
  /\ ret.op # "uncaughtException"

\* the sources no handler may store: blank ones
IsBlank(code) == Trim(Chars(code)) = <<>>

\* a deployFunction call of either handler that has returned
DeployReturned == ret.op \in {"deployFunction", "deno.deployFunction"}

SizeErrors ==
  {Chars("Function code too large (max 100KB)"),
   Chars("Function code too large (max 50KB)")}

\* C16 (as stated): deployFunction refuses every blank source and every
\* source longer than 100,000 characters, stores nothing for them, and never
\* refuses a non-blank source of at most 100,000 characters for its size.
C16_SizeLimit ==
  /\ \A i \in 1..Len(functions) :
       /\ ~IsBlank(functions[i].originalCode)
       /\ Len(Chars(functions[i].originalCode)) <= 100000
  /\ \A i \in 1..Len(denoFunctions) :
       /\ ~IsBlank(denoFunctions[i].code)
       /\ Len(Chars(denoFunctions[i].code)) <= 100000
  /\ DeployReturned =>
       /\ (IsBlank(ret.functionCode) \/ Len(Chars(ret.functionCode)) > 100000)
            => ~ret.success
       /\ (~IsBlank(ret.functionCode) /\ Len(Chars(ret.functionCode)) <= 100000)
            => (ret.success \/ ret.error \notin SizeErrors)

\* C16 (amended): the limit is the handler's own. The Node.js handler
\* refuses blank sources and sources longer than 100,000 characters and
\* refuses no non-blank source of at most 100,000 characters for its size;
\* the Deno handler does the same with 50,000 characters. Neither stores a
\* source it refuses.
C16_SizeLimitPerHandler ==
  /\ \A i \in 1..Len(functions) :
       /\ ~IsBlank(functions[i].originalCode)
       /\ Len(Chars(functions[i].originalCode)) <= 100000
  /\ \A i \in 1..Len(denoFunctions) :
       /\ ~IsBlank(denoFunctions[i].code)
       /\ Len(Chars(denoFunctions[i].code)) <= 50000
  /\ ret.op = "deployFunction" =>
       /\ (IsBlank(ret.functionCode) \/ Len(Chars(ret.functionCode)) > 100000)
            => ~ret.success
       /\ (~IsBlank(ret.functionCode) /\ Len(Chars(ret.functionCode)) <= 100000)
            => (ret.success \/ ret.error \notin SizeErrors)
  /\ ret.op = "deno.deployFunction" =>
       /\ (IsBlank(ret.functionCode) \/ Len(Chars(ret.functionCode)) > 50000)
            => ~ret.success
       /\ (~IsBlank(ret.functionCode) /\ Len(Chars(ret.functionCode)) <= 50000)
            => (ret.success \/ ret.error \notin SizeErrors)

\* the Node.js handler holds a source of 100,000 characters, the Deno
\* handler one of 50,000, and the Deno handler has just refused 50,001
C16_Witness ==
  /\ \E i \in 1..Len(functions) : functions[i].originalCode = Src100000
  /\ \E i \in 1..Len(denoFunctions) : denoFunctions[i].code = Src50000
  /\ ret.op = "deno.deployFunction" /\ ret.functionCode = Src50001
  /\ ~ret.success /\ ret.error \in SizeErrors

\* C17: listFunctions returns one summary per registry entry, in the
\* registry's order, and none for a name that is absent; a summary carries
\* the entry's name, deployedAt and status, hasImportMap true exactly when
\* the import map given at deploy has a key, and codeLength the length of
\* the submitted source.
C17_ListFunctions ==
  ret.op = "listFunctions" =>
    /\ Len(ret.value) = Len(functions)
    /\ Cardinality({ret.value[i].name : i \in 1..Len(ret.value)}) = Len(ret.value)
    /\ {ret.value[i].name : i \in 1..Len(ret.value)} = RegistryNames
    /\ \A i \in 1..Len(ret.value) :
         /\ ret.value[i].name = functions[i].name
         /\ ret.value[i].deployedAt = functions[i].deployedAt
         /\ ret.value[i].status = functions[i].status
         /\ ret.value[i].hasImportMap = (functions[i].importMap # <<>>)
         /\ ret.value[i].codeLength = Len(Chars(functions[i].originalCode))

\* two functions are listed, one deployed with an import map and one
\* without, their sources of different lengths
C17_Witness ==
  /\ ret.op = "listFunctions"
  /\ Len(ret.value) = 2
  /\ ret.value[1].hasImportMap /\ ~ret.value[2].hasImportMap
  /\ ret.value[1].codeLength # ret.value[2].codeLength

\* the handler that implements each listed tool
Implements ==
  [name \in {listTools[i] : i \in 1..Len(listTools)} |->
     CASE ArrayIncludes(getConnectionTools, name) -> "handleConnectionTool"
       [] ArrayIncludes(getAuthTools, name) -> "handleAuthTool"
       [] ArrayIncludes(getSchemaTools, name) -> "handleSchemaTool"
       [] ArrayIncludes(getDatabaseTools, name) -> "handleDatabaseTool"
       [] ArrayIncludes(getRealtimeTools, name) -> "handleRealtimeTool"
       [] ArrayIncludes(getStorageTools, name) -> "handleStorageTool"
       [] ArrayIncludes(getSqlTools, name) -> "handleSqlTool"
       [] ArrayIncludes(getEnhancedSqlTools, name) -> "handleEnhancedSqlTool"
       [] ArrayIncludes(getEdgeFunctionTools, name) -> "handleEdgeFunctionTool"
       [] ArrayIncludes(getSecurityTools, name) -> "handleSecurityTool"]

\* C18: the list-tools handler lists 42 tools, and a call of any of them by
\* name runs the case of that name in the handler that implements the tool;
\* none ends in an "Unknown ... tool" error.
C18_EveryToolRouted ==
  /\ ret.op = "listTools" =>
       /\ Len(ret.tools) = 42
       /\ Cardinality({ret.tools[i] : i \in 1..Len(ret.tools)}) = 42
  /\ (ret.op = "callTool" /\ ret.name \in DOMAIN Implements) =>
       /\ ret.result.kind = "handled"
       /\ ret.result.handler = Implements[ret.name]
       /\ ret.result.case = ret.name

\* an enhanced SQL tool, whose name has the prefix of the SQL tools, has
\* been called and has run in the enhanced handler
C18_Witness ==
  /\ ret.op = "callTool" /\ ret.name = "sql_execute_raw"
  /\ ret.result.kind = "handled"
  /\ ret.result.handler = "handleEnhancedSqlTool"

\* C19: the transformer applies the bare-name template exactly when the
\* last line of the trimmed source is a bare identifier; a last line such
\* as "}" goes to the general template. Stated of every source a pending
\* deployFunction call is about to wrap.
C19_Classification ==
  \A c \in Slots :
    calls[c].pc = "deploy:mkdir" =>
      ((wrapFunctionForNodeJS(calls[c].functionCode, calls[c].importMap).template
          = "bare")
        = IsIdentifier(LastLine(CodeLines(calls[c].functionCode))))

\* C20: in the general template the entry point called is the first
\* callable among the default export, the exports value, the last-line
\* identifier and the scanned declarations: a source that exports a default
\* function and ends with the name of another function runs the exported
\* one.
C20_FirstMatchWins ==
  (ret.op = "executeFunction" /\ ret.ran /\ ret.script = SrcExportThenLast) =>
    /\ ret.success
    /\ SameValue(ret.data, Str(Chars("exported")))

\* C21: under the general convention a source that sets no export and whose
\* last line names no callable, but that declares a function at top level,
\* has that function found by the declaration scan and called.
C21_DeclarationScan ==
  (ret.op = "executeFunction" /\ ret.ran /\ ret.script = SrcDeclaredOnly) =>
    /\ ret.settled = "resolved" /\ ret.success
    /\ SameValue(ret.data, Str(Chars("declared")))

\* the names a no-handler failure lists: the text between
\* "Available functions: " and ". Last line: ..."
AvailablePart(error, code) ==
  LET k == CHOOSE i \in 1..Len(error) : HasAt(error, i, Chars("Available functions: "))
  IN SubSeq(error, k + Len(Chars("Available functions: ")),
            Len(error) - Len(LastLine(CodeLines(code))) - Len(Chars(". Last line: ")))

\* C22: when no entry point is found, the failure message lists every
\* callable in the scope of the source, the functions the source declared
\* among them.
C22_ListsDeclared ==
  (/\ ret.op = "executeFunction" /\ ret.ran /\ ret.script = SrcDeclaredOnly
   /\ ret.settled = "resolved" /\ ~ret.success
   /\ Includes(ret.error, Chars("No handler function found")))
    => Includes(AvailablePart(ret.error, ret.script), Chars("handler"))

\* C23: a function that only calls res.status(404) and res.setHeader and
\* returns a value that is not Shape A is Shape B: the result carries the
\* builder's status 404 and its headers, not the defaults 200 and none.
C23_StatusIsShapeB ==
  (ret.op = "executeFunction" /\ ret.ran /\ ret.script = SrcStatusOnly
   /\ ret.settled = "resolved" /\ ret.success) =>
    /\ ret.builder.statusCode = 404
    /\ \/ ret.statusCode = 404
       \/ SameValue(Get(ret.data, "status"), Num(404))
    /\ \/ SameValue(ret.headers, Obj(ret.builder.responseHeaders))
       \/ SameValue(Get(ret.data, "headers"), Obj(ret.builder.responseHeaders))

\* C24: every executeFunction call eventually returns; a call on a function
\* whose promise never settles ends as a timeout failure.
C24_EventuallyReturns ==
  \A c \in Slots :
    (calls[c].pc = "execute:await") ~> (calls[c].pc # "execute:await")

\* C25: executions are isolated: nothing one execution writes to an object
\* reachable from its scope (here an entry of process.env) is observable by a
\* later execution, so a function that reads the entry finds it unset.
C25_ExecutionIsolation ==
  (ret.op = "executeFunction" /\ ret.ran /\ ret.script = SrcEnvRead)
    => /\ ret.settled = "resolved"
       /\ ret.success
       /\ SameValue(ret.data, Undefined)

\* a step of an operation that only reads the registry
ReadsRegistry ==
  \/ \E n \in FrameNames, h \in HeaderSets : ExecuteNotFound(n, PayloadAB, h)
  \/ \E n \in FrameNames, h \in HeaderSets : Execute(n, PayloadAB, h)
  \/ ListFunctions
  \/ \E n \in FrameNames : GetFunctionDetails(n)

\* a step in which a deployFunction of name n stores its record
DeployStores(n) ==
  \E c \in Slots :
    /\ calls[c].pc = "deploy:mkdir"
    /\ calls[c].functionName = n
    /\ DeployFinish(c)
    /\ MapGet(functions', n) =
         deployedRecord(n, calls[c].functionCode, calls[c].importMap,
                        wrapFunctionForNodeJS(calls[c].functionCode, calls[c].importMap))

\* C26: only deployFunction and removeFunction write the registry:
\* executeFunction (successful, failing or not found), listFunctions and
\* getFunctionDetails leave the names and every record unchanged, and the
\* deployedAt of a name changes only when a deploy replaces its record.
C26_Frame ==
  [][/\ ReadsRegistry => functions' = functions
     /\ functions' # functions =>
          \E c \in Slots : DeployFinish(c) \/ RemoveFinish(c) \/ RemoveCleanupFails(c)
     /\ \A n \in FrameNames :
          (/\ MapHas(functions, n) /\ MapHas(functions', n)
           /\ MapGet(functions', n).deployedAt # MapGet(functions, n).deployedAt)
            => DeployStores(n)]_vars

\* a failing execution has returned while the registry holds a record that a
\* redeploy has replaced at a later time
C26_Witness ==
  /\ ret.op = "executeFunction" /\ ret.ran /\ ~(ret.settled = "resolved" /\ ret.success)
  /\ \E i \in 1..Len(functions) : functions[i].deployedAt > 0

\* C27: registry mutations are atomic with respect to other calls: while a
\* removeFunction is between its existence check and its deletion of the
\* entry, no deployFunction, executeFunction or listFunctions call returns.
C27_RemoveAtomic ==
  [][\A c \in Slots :
       calls[c].pc = "remove:rm"
         => ret'.op \notin {"deployFunction", "executeFunction", "listFunctions"}]_vars

\* no call is in progress
Quiescent == \A c \in Slots : calls[c] = Idle

\* the scratch directories of names that have no registry entry
Orphans == dirs \ RegistryNames

\* C28: scratch directories are scoped to a function's lifetime: a step that
\* leaves no call in progress leaves a directory without registry entry
\* behind only when it is a removeFunction whose cleanup failed; a
\* deployFunction that fails after validation leaves none.
C28_ScratchScoped ==
  [][(Quiescent' /\ ~(\E c \in Slots : RemoveCleanupFails(c)))
       => Orphans' \subseteq Orphans]_vars

\* C29: in the Deno handler, what executeFunction(n) runs corresponds to the
\* current record of n: the source in the file that is run is the one of the
\* record, and the import map in use is the one of the record (none after a
\* redeploy with an empty map).
C29_RunsCurrentRecord ==
  (ret.op = "deno.executeFunction" /\ ret.ran)
    => /\ ret.runs.source =
            denoWrapFunctionCode(MapGet(denoFunctions, ret.functionName).code,
                                 MapGet(denoFunctions, ret.functionName).importMap)
       /\ ret.runs.importMap = MapGet(denoFunctions, ret.functionName).importMap

\* the local execution succeeded
LocalSucceeded == ret.local.settled = "resolved" /\ ret.local.success

\* C30: edge_invoke_function asks the remote backend only when the local
\* execution did not succeed; a local success is returned with its data and
\* the backend is not asked; when a deployed function fails at run time the
\* reply is the one of the backend, with the local error in it only when the
\* backend fails as well.
C30_LocalThenRemote ==
  ret.op = "edge_invoke_function"
    => /\ ret.invoked = 1 => ~LocalSucceeded
       /\ LocalSucceeded
            => /\ ret.invoked = 0
               /\ ret.reply.success
               /\ SameValue(ret.reply.data, ret.local.data)
       /\ (ret.local.ran /\ ~LocalSucceeded)
            => /\ ret.invoked = 1
               /\ ret.remote.kind = "data"
                    => ret.reply = [success |-> TRUE, data |-> ret.remote.data]
               /\ ret.remote.kind = "error"
                    => /\ ~ret.reply.success
                       /\ ret.reply.supabase_error = ret.remote.message
                       /\ ret.reply.local_error = ret.local.error

====
